---------------------------- MODULE Spec2Model ----------------------------
(***************************************************************************)
(* one_agent: the conversation history store (src/core/history.py) and the *)
(* agent loop (src/core/agent.py: run, stream, _execute_tool_calls).       *)
(*                                                                         *)
(* Specifications:                                                         *)
(*   SpecHistory   a ConversationHistory driven directly through its API   *)
(*   Spec          an Agent whose run()/stream() calls drive the history   *)
(*   SpecProvider  one stream() call of a provider adapter                 *)
(*   SpecStore     a ConversationHistory with a storage file: appends,     *)
(*                 save() and load()                                       *)
(*                 (src/providers/openai.py, anthropic.py, compatible.py)  *)
(***************************************************************************)
EXTENDS Integers, Sequences, FiniteSets, TLC

VARIABLES
    \* ConversationHistory (src/core/history.py)
    messages,       \* ConversationHistory.messages
    max_messages,   \* ConversationHistory.max_messages
    clock,          \* number of Message objects created so far (their timestamp)
    last_added,     \* the Message handed to the most recent add()
    storage_file,   \* ConversationHistory.storage_file (a path, or NoPath)
    auto_save,      \* ConversationHistory.auto_save
    _metadata,      \* ConversationHistory._metadata (or NoMetadata)
    files,          \* the file system: what each path holds
    snapshot,       \* per path: the message list that was in memory when it was written
    last_op,        \* the store operation that ran last
    last_path,      \* the path that operation worked on (save, load)
    load_result,    \* what the most recent load() returned
    store_raised,   \* TRUE when the most recent store operation ended in an exception
    \* Agent (src/core/agent.py)
    tools,                      \* names registered in Agent.tools
    enable_web_search,          \* Agent._enable_web_search
    max_iterations,             \* config.max_iterations
    pc,                         \* where the current run()/stream() call stands
    mode,                       \* "run" or "stream": the call in progress (or the last one)
    max_iters,                  \* local max_iters
    iteration,                  \* local loop index
    web_search_tool_backup,     \* local: TRUE when the backup holds the search tool
    other_search_tools_backup,  \* local: names held in the backup dict
    response,                   \* local: the provider's latest LLMResponse / StreamChunk
    tool_calls,                 \* _execute_tool_calls: its argument
    results,                    \* _execute_tool_calls: its results list
    full_response,              \* stream(): local full_response
    outcome,                    \* how the last finished call ended
    next_call_id,               \* the vendor's next tool-call id
    chats,                      \* provider requests issued by the call in progress
    chunks,                     \* chunks the current provider stream has yielded
    invoked,                    \* ids of the calls whose tool.execute was entered
    raw_results,                \* per handled call: what tool.execute itself returned
    tools_at_call,              \* Agent.tools as the latest run()/stream() call found it
    stream_tool_calls,          \* tool calls the current provider stream has carried
    callback_log,               \* stream(): the chunks handed to the callback, in order
    \* a provider adapter's stream() generator (src/providers/*.py)
    adapter,                \* "openai", "anthropic" or "compatible"
    native_streaming,       \* compatible.py 260: FALSE when the text-tool fallback is taken
    generator,              \* "running", or "done" once the generator has finished
    received,               \* transport chunks read so far
    full_content,           \* local full_content
    emitted,                \* the StreamChunks yielded so far
    \* MCP clients and registry (src/mcp/client.py, src/mcp/registry.py)
    _connected,         \* per server: MCPClient._connected
    _process,           \* per server: TRUE when MCPClient._process holds a subprocess
    _pipes,             \* per server: TRUE when _reader and _writer hold the pipes
    _request_id,        \* per server: MCPClient._request_id
    client_tools,       \* per server: the names in MCPClient._tools
    registry_tools,     \* MCPToolRegistry._tools, a list of RegisteredTool
    session,            \* per server: how the latest connect/disconnect left it
    mcp_last,           \* the MCP operation that ran last and what it gave
    written,            \* per server: the ids of the request frames written, in order
    \* two threads calling one connected MCP client (src/mcp/client.py 254-289)
    caller_pc,          \* per caller: where its call_tool stands
    caller_id,          \* per caller: the id in the frame it wrote (0 before)
    caller_got,         \* per caller: the id of the response it was handed (0 before)
    stdin_frames,       \* request ids the subprocess has not answered yet, in order
    stdout_frames,      \* response ids waiting on the subprocess's stdout, in order
    \* ConversationHistory.get_last_n_messages (src/core/history.py 112-115)
    last_n,             \* the latest call: its argument and what it returned
    \* an adapter's parse_response / parse_stream_chunk (src/providers/*.py)
    parse_input,        \* the vendor response handed to the parser
    parse_by,           \* the parser that ran ("none" before)
    parse_output        \* what it returned

histVars == <<messages, max_messages, clock, last_added, storage_file, auto_save,
              _metadata, files, snapshot, last_op, last_path, load_result,
              store_raised>>

agentVars == <<tools, enable_web_search, max_iterations, pc, mode, max_iters,
               iteration, web_search_tool_backup, other_search_tools_backup,
               response, tool_calls, results, full_response, outcome,
               next_call_id, chats, chunks, invoked, raw_results,
               tools_at_call, stream_tool_calls, callback_log>>

provVars == <<adapter, native_streaming, generator, received, full_content, emitted>>

mcpVars == <<_connected, _process, _pipes, _request_id, client_tools, registry_tools,
             session, mcp_last, written>>

callVars == <<caller_pc, caller_id, caller_got, stdin_frames, stdout_frames>>

queryVars == <<last_n>>

parseVars == <<parse_input, parse_by, parse_output>>

\* the state the agent loop and the store's API leave alone
besideAgent == <<provVars, mcpVars, callVars, queryVars, parseVars>>

\* the state an adapter's stream() leaves alone, beside the store and the agent
besideProvider == <<mcpVars, callVars, queryVars, parseVars>>

\* the state the MCP operations leave alone, beside the agent's
besideMCP == <<histVars, provVars, callVars, queryVars, parseVars>>

vars == <<histVars, agentVars, provVars, mcpVars, callVars, queryVars, parseVars>>

----------------------------------------------------------------------------
(* Bounds *)

\* SpecHistory: the number of add() calls in a behaviour
MaxAppends == 5
\* SpecHistory: capacities 1..MaxCap are explored (Spec: MaxCap and the default)
MaxCap == 3
\* Spec: the number of Message objects created in a behaviour
MaxClock == 6
\* Spec: config.max_iterations, and the largest max_iterations override of run()
MaxIters == 2
\* Spec: the largest number of tool calls in one response of run()
MaxCalls == 2
\* Spec: the largest number of chunks of one provider stream
MaxChunks == 2
\* Spec: the largest number of tool calls one chunk of a stream carries
MaxChunkCalls == 1

----------------------------------------------------------------------------
(* Text: a string is the sequence of its pieces, concatenated with \o *)

Str(x) == <<x>>
Empty == <<>>

----------------------------------------------------------------------------
(* Message (history.py 11-18) *)

\* Optional[str] tool_call_id = None
NoId == 0

\* tool_calls = None (falsy, like the empty list, where the loop tests it)
NoToolCalls == <<>>

Message(role, content, calls, tool_call_id, timestamp) ==
    [role |-> role, content |-> content, tool_calls |-> calls,
     tool_call_id |-> tool_call_id, timestamp |-> timestamp]

IsSystem(m) == m.role = "system"
IsNonSystem(m) == m.role # "system"

\* Python's s[-k:] for k >= 0: the last k elements, and the WHOLE list for k = 0
NegSlice(s, k) ==
    IF k = 0 \/ k >= Len(s) THEN s ELSE SubSeq(s, Len(s) - k + 1, Len(s))

\* keep_count of _trim (history.py 259-261)
keep_count(msgs, cap) ==
    LET n == cap - Len(SelectSeq(msgs, IsSystem))
    IN  IF n < 0 THEN 0 ELSE n

\* a _trim that cuts the list to its last `cap` entries whatever their role
TrimIgnoringRoles(msgs, cap) ==
    IF Len(msgs) <= cap THEN msgs
    ELSE SubSeq(msgs, Len(msgs) - cap + 1, Len(msgs))

\* a _trim that keeps the oldest non-system messages instead of the newest
TrimKeepingOldest(msgs, cap) ==
    IF Len(msgs) <= cap THEN msgs
    ELSE LET non_system == SelectSeq(msgs, IsNonSystem)
             k == keep_count(msgs, cap)
         IN  SelectSeq(msgs, IsSystem)
               \o SubSeq(non_system, 1, IF k < Len(non_system) THEN k ELSE Len(non_system))

\* ConversationHistory._trim (history.py 249-264)
_trim(msgs, cap) ==
    IF Len(msgs) <= cap THEN msgs
    ELSE SelectSeq(msgs, IsSystem)
           \o NegSlice(SelectSeq(msgs, IsNonSystem), keep_count(msgs, cap))

\* the list after add(): append, then _trim (history.py 86-87)
Added(msgs, cap, m) == _trim(Append(msgs, m), cap)

----------------------------------------------------------------------------
(* Persistence (history.py 20-47, 72-82, 124-181, 266-270) *)

Paths == {"p1", "p2"}

\* Optional[Path] = None
NoPath == "none"

\* SessionMetadata (history.py 30-47): the name and the message count
SessionMetadata(name, count) == [session_name |-> name, message_count |-> count]

\* _metadata = None
NoMetadata == SessionMetadata("none", -1)

\* the metadata property (history.py 72-82): created on first access
MetadataOf(md, msgs) ==
    IF md = NoMetadata THEN SessionMetadata("default", Len(msgs)) ELSE md

\* _update_metadata (history.py 266-270): only when metadata exists
Updated(md, msgs) ==
    IF md = NoMetadata THEN md ELSE [md EXCEPT !.message_count = Len(msgs)]

\* dataclasses.asdict on a ToolCall: a dict with the same fields
asdict(call) == [call EXCEPT !.type = "dict"]

\* Message.to_dict (history.py 20-22): asdict recurses into tool_calls
to_dict(m) ==
    [m EXCEPT !.tool_calls = [i \in 1..Len(m.tool_calls) |-> asdict(m.tool_calls[i])]]

to_dicts(msgs) == [i \in 1..Len(msgs) |-> to_dict(msgs[i])]

\* a from_dict that leaves the tool calls out
FromDictWithoutCalls(d) == [d EXCEPT !.tool_calls = NoToolCalls]

\* Message.from_dict (history.py 24-27): cls(**data), every field as it was read
from_dict(d) == d

\* the JSON document save() writes, and a path that holds no file
FileOf(md, msgs) ==
    [exists |-> TRUE, shape |-> "ok", metadata |-> md, messages |-> to_dicts(msgs)]
Absent == [exists |-> FALSE, shape |-> "none", metadata |-> NoMetadata, messages |-> <<>>]

\* a file that save() did not write, by what json.load and the two from_dict calls
\* of load() make of it:
\*   "not_json"      text that is not JSON (json.JSONDecodeError)
\*   "top_scalar"    JSON null or a number (`"metadata" in data` is a TypeError)
\*   "top_list"      a JSON array or string (data.get is an AttributeError)
\*   "no_keys"       a JSON object with neither "metadata" nor "messages"
\*   "bad_metadata"  a metadata object with missing or unknown fields (TypeError)
\*   "bad_message"   a message object with missing or unknown fields (TypeError)
CorruptShapes ==
    {"not_json", "top_scalar", "top_list", "no_keys", "bad_metadata", "bad_message"}

Corrupt(shape) ==
    [exists |-> TRUE, shape |-> shape, metadata |-> NoMetadata, messages |-> <<>>]

\* the shapes whose exception load() catches (history.py 177-181)
CaughtShapes == {"not_json", "top_scalar", "bad_metadata", "bad_message"}

\* an auto-save that runs before the append: the file is one message behind
PersistBeforeAppend(msgs) ==
    /\ IF auto_save /\ storage_file # NoPath
       THEN /\ _metadata' = MetadataOf(Updated(_metadata, messages), messages)
            /\ files' = [files EXCEPT ![storage_file] =
                            FileOf(MetadataOf(Updated(_metadata, messages), messages),
                                   messages)]
            /\ snapshot' = [snapshot EXCEPT ![storage_file] = messages]
       ELSE /\ _metadata' = Updated(_metadata, msgs)
            /\ UNCHANGED <<files, snapshot>>
    /\ last_op' = "add"
    /\ last_path' = NoPath
    /\ store_raised' = FALSE
    /\ UNCHANGED <<storage_file, auto_save, load_result>>

\* what add() does once the list is trimmed (history.py 88-90): refresh the
\* metadata, and save to the storage file when auto-save is on
persist(msgs) ==
    /\ IF auto_save /\ storage_file # NoPath
       THEN /\ _metadata' = MetadataOf(Updated(_metadata, msgs), msgs)
            /\ files' = [files EXCEPT ![storage_file] =
                            FileOf(MetadataOf(Updated(_metadata, msgs), msgs), msgs)]
            /\ snapshot' = [snapshot EXCEPT ![storage_file] = msgs]
       ELSE /\ _metadata' = Updated(_metadata, msgs)
            /\ UNCHANGED <<files, snapshot>>
    /\ last_op' = "add"
    /\ last_path' = NoPath
    /\ store_raised' = FALSE
    /\ UNCHANGED <<storage_file, auto_save, load_result>>

\* ConversationHistory.add (history.py 84-90) as a step: the store after it, the
\* clock, and the message it was given
add(m) ==
    /\ messages' = Added(messages, max_messages, m)
    /\ clock' = clock + 1
    /\ last_added' = m
    /\ persist(Added(messages, max_messages, m))
    /\ UNCHANGED max_messages

----------------------------------------------------------------------------
(* ToolCall (providers/base.py 8-13), ToolResult (tools/base.py 8-14) *)

\* type: the Python type of the value, a ToolCall object or (after asdict) a dict
ToolCall(id, name, arguments) ==
    [id |-> id, name |-> name, arguments |-> arguments, type |-> "ToolCall"]

ToolResult(success, content, tool_call_id, error) ==
    [success |-> success, content |-> content,
     tool_call_id |-> tool_call_id, error |-> error]

\* LLMResponse (providers/base.py 16-21) and StreamChunk (28-34): what the loop reads
LLMResponse(content, calls) == [content |-> content, tool_calls |-> calls]
StreamChunk(delta, calls) == [delta |-> delta, tool_calls |-> calls]

NoResponse == LLMResponse(Empty, NoToolCalls)

\* how a call ended: nothing yet (or in progress), a returned value, or an exception
NoOutcome == [kind |-> "none", value |-> Empty, by |-> "none"]
Returned(v) == [kind |-> "returned", value |-> v, by |-> "none"]
Raised(by) == [kind |-> "raised", value |-> Empty, by |-> by]

----------------------------------------------------------------------------
(* Initial states *)

\* the tools main.py registers that matter to the loop: the search tool, the other
\* search tool the mask removes, and a tool the mask does not name
BuiltinTools == {"web_search", "wikipedia", "calculator"}

IdleAgent ==
    /\ tools = BuiltinTools
    /\ enable_web_search \in BOOLEAN
    /\ max_iterations = MaxIters
    /\ pc = "idle"
    /\ mode = "none"
    /\ max_iters = 0
    /\ iteration = 0
    /\ web_search_tool_backup = FALSE
    /\ other_search_tools_backup = {}
    /\ response = NoResponse
    /\ tool_calls = <<>>
    /\ results = <<>>
    /\ full_response = Empty
    /\ outcome = NoOutcome
    /\ next_call_id = 1
    /\ chats = 0
    /\ chunks = 0
    /\ invoked = <<>>
    /\ raw_results = <<>>
    /\ tools_at_call = BuiltinTools
    /\ stream_tool_calls = 0
    /\ callback_log = <<>>

\* a store that has no metadata yet, and a file system without history files
FreshStore ==
    /\ _metadata = NoMetadata
    /\ files = [p \in Paths |-> Absent]
    /\ snapshot = [p \in Paths |-> <<>>]
    /\ last_op = "init"
    /\ last_path = NoPath
    /\ load_result = FALSE
    /\ store_raised = FALSE

\* the configured MCP servers, in the order of the registry's _clients dict
Servers == {"fs", "db"}
ServerOrder == <<"fs", "db">>
NoServer == "none"

\* the tool names a server may list, in the order of its tools/list result
ToolNames == {"t1", "t2"}
ToolOrder == <<"t1", "t2">>

\* what an MCP operation leaves in mcp_last
MCPOutcome(op, server, reported, kinds, offered, call) ==
    [op |-> op, server |-> server, reported |-> reported, kinds |-> kinds,
     offered |-> offered, call |-> call]

\* MCPToolResult (client.py 78-90)
MCPToolResult(success, content, error) ==
    [success |-> success, content |-> content, error |-> error]

\* no call_tool has run
NoCall ==
    [frame |-> "none", frame_id |-> "absent", session_before |-> "none",
     result |-> MCPToolResult(FALSE, Empty, Empty),
     raised |-> FALSE, wrote |-> FALSE, read |-> FALSE, advanced |-> FALSE]

\* MCPClient.__init__ (client.py 97-109) for every server that add_server
\* (registry.py 59-67) configured; MCPToolRegistry.__init__ (registry.py 33-43)
IdleMCP ==
    /\ _connected = [s \in Servers |-> FALSE]
    /\ _process = [s \in Servers |-> FALSE]
    /\ _pipes = [s \in Servers |-> FALSE]
    /\ _request_id = [s \in Servers |-> 0]
    /\ client_tools = [s \in Servers |-> {}]
    /\ registry_tools = <<>>
    /\ session = [s \in Servers |-> "new"]
    /\ written = [s \in Servers |-> <<>>]
    /\ mcp_last = MCPOutcome("init", NoServer, [s \in Servers |-> "absent"],
                             [s \in Servers |-> "none"], [s \in Servers |-> {}], NoCall)

\* the threads that may call one client at the same time
Callers == {"c1", "c2"}

\* no thread is inside call_tool and the pipes are empty
IdleCallers ==
    /\ caller_pc = [c \in Callers |-> "idle"]
    /\ caller_id = [c \in Callers |-> 0]
    /\ caller_got = [c \in Callers |-> 0]
    /\ stdin_frames = <<>>
    /\ stdout_frames = <<>>

\* get_last_n_messages has not been called
NoQuery == [n |-> -1, result |-> <<>>]
IdleQuery == last_n = NoQuery

\* no vendor response is being parsed
NoVendorResponse ==
    [vendor |-> "none", choices |-> FALSE, text |-> <<>>, blocks |-> <<>>, entries |-> <<>>,
     finish |-> FALSE]
NoParse == [raised |-> FALSE, content |-> <<>>, tool_calls |-> <<>>, is_final |-> FALSE]
IdleParser ==
    /\ parse_input = NoVendorResponse
    /\ parse_by = "none"
    /\ parse_output = NoParse

\* no provider stream is being looked at
IdleProvider ==
    /\ adapter = "none"
    /\ native_streaming = TRUE
    /\ generator = "done"
    /\ received = 0
    /\ full_content = Empty
    /\ emitted = <<>>

----------------------------------------------------------------------------
(* SpecHistory: the store driven through its public API *)

UserContents == {"A", "B", "C"}

NoMessage == Message("none", Empty, NoToolCalls, NoId, 0)

\* ConversationHistory.__init__ (history.py 53-70)
InitHistory ==
    /\ messages = <<>>
    /\ max_messages \in 1..MaxCap
    /\ clock = 0
    /\ last_added = NoMessage
    /\ storage_file = NoPath
    /\ auto_save = TRUE
    /\ FreshStore
    /\ IdleAgent
    /\ IdleMCP
    /\ IdleCallers
    /\ IdleQuery
    /\ IdleParser
    /\ enable_web_search = FALSE
    /\ IdleProvider

add_system ==
    /\ clock < MaxAppends
    /\ add(Message("system", Str("S"), NoToolCalls, NoId, clock + 1))
    /\ UNCHANGED <<agentVars, besideAgent>>

add_user ==
    /\ clock < MaxAppends
    /\ \E c \in UserContents :
         add(Message("user", Str(c), NoToolCalls, NoId, clock + 1))
    /\ UNCHANGED <<agentVars, besideAgent>>

add_assistant ==
    /\ clock < MaxAppends
    /\ add(Message("assistant", Str("R"), NoToolCalls, NoId, clock + 1))
    /\ UNCHANGED <<agentVars, besideAgent>>

add_tool_result ==
    /\ clock < MaxAppends
    /\ add(Message("tool", Str("out"), NoToolCalls, 1, clock + 1))
    /\ UNCHANGED <<agentVars, besideAgent>>

NextHistory ==
    \/ add_system
    \/ add_user
    \/ add_assistant
    \/ add_tool_result

SpecHistory == InitHistory /\ [][NextHistory]_vars

----------------------------------------------------------------------------
(* Tools as the loop sees them (src/tools/*.py: the execute signatures) *)

NoError == Empty

\* the id a tool puts into its own result (a uuid-based string, never a vendor id)
ToolMadeId == -1

\* whether Python can bind the keyword arguments to the tool's execute signature:
\* web_search.py 160 and calculator.py 34 give every parameter a default and take
\* **kwargs; wikipedia.py 55-60 requires query and takes no other keywords
Accepts(name, arguments) ==
    IF name = "wikipedia"
    THEN "query" \in arguments /\ arguments \subseteq {"query", "lang", "num_results"}
    ELSE TRUE

\* the parameter whose absence the tool reports itself (web_search.py 172-179,
\* calculator.py 43-50)
RequiredParam(name) == IF name = "calculator" THEN "expression" ELSE "query"

Completed(result) == [raised |-> FALSE, result |-> result, returned |-> result]
Raises ==
    [raised |-> TRUE, result |-> ToolResult(FALSE, Empty, ToolMadeId, NoError),
     returned |-> ToolResult(FALSE, Empty, ToolMadeId, NoError)]

\* tool.execute(**arguments): a TypeError when the arguments do not bind, a
\* failure result when the required parameter is missing, otherwise whatever the
\* backend does: a result with output, or a failure result with empty content
Execute(name, arguments) ==
    IF ~Accepts(name, arguments) THEN {Raises}
    ELSE IF RequiredParam(name) \notin arguments
    THEN {Completed(ToolResult(FALSE, Empty, ToolMadeId, Str("Missing required parameter")))}
    ELSE {Completed(ToolResult(TRUE, Str("output"), ToolMadeId, NoError)),
          Completed(ToolResult(FALSE, Empty, ToolMadeId, Str("backend error")))}

----------------------------------------------------------------------------
(* Agent._execute_tool_calls (agent.py 430-474), one call of the list at a time *)

NotFound(name) == <<"Error: Tool '", name, "' not found">>

\* an unknown-tool result that keeps ToolResult's default id instead of the call's
UnknownToolResultDefaultId(call) ==
    ToolResult(FALSE, NotFound(call.name), NoId, NoError)

\* agent.py 464-469: the result synthesized for a name that is not registered
UnknownToolResult(call) ==
    ToolResult(FALSE, NotFound(call.name), call.id, NoError)

\* a coercion that turns the failing result of any tool into an empty success
CoercedAnyTool(call, result) ==
    IF ~result.success THEN ToolResult(TRUE, Empty, call.id, NoError) ELSE result

\* agent.py 455-463: a failing web_search result becomes an empty success
Coerced(call, result) ==
    IF call.name = "web_search" /\ ~result.success
    THEN ToolResult(TRUE, Empty, call.id, NoError)
    ELSE result

\* the raw result recorded for a call that no tool executed
NotExecuted == ToolResult(FALSE, Empty, NoId, NoError)

\* agent.py 447-469: what handling one call can do, given the registry: the
\* result put into the list, and next to it what execute had returned
HandleCall(call, registry) ==
    IF call.name \in registry
    THEN {IF o.raised THEN o
          ELSE [Completed(Coerced(call, [o.result EXCEPT !.tool_call_id = call.id]))
                  EXCEPT !.returned = o.result] :
             o \in Execute(call.name, call.arguments)}
    ELSE {[Completed(UnknownToolResult(call)) EXCEPT !.returned = NotExecuted]}

\* a loop that appends the tool message of the last result only
AddLastToolResultOnly(msgs, cap, rs, t) ==
    IF rs = <<>> THEN msgs
    ELSE Added(msgs, cap,
               Message("tool", rs[Len(rs)].content, NoToolCalls,
                       rs[Len(rs)].tool_call_id, t + Len(rs)))

\* agent.py 183-187 / 268-272: add_tool_result for every result, in order
RECURSIVE AddToolResults(_, _, _, _)
AddToolResults(msgs, cap, rs, t) ==
    IF rs = <<>> THEN msgs
    ELSE AddToolResults(
             Added(msgs, cap,
                   Message("tool", Head(rs).content, NoToolCalls,
                           Head(rs).tool_call_id, t + 1)),
             cap, Tail(rs), t + 1)

Last(s) == s[Len(s)]

ToolMessage(r, t) == Message("tool", r.content, NoToolCalls, r.tool_call_id, t)

----------------------------------------------------------------------------
(* The provider as the loop sees it: any response, chunk, or an error *)

\* the calls the model's vendor issues: a search, a wikipedia lookup with and
\* without its required query, and a tool that is not registered
CallKinds ==
    {[name |-> "web_search", arguments |-> {"query"}],
     [name |-> "wikipedia", arguments |-> {"query"}],
     [name |-> "wikipedia", arguments |-> {}],
     [name |-> "missing_tool", arguments |-> {"query"}]}

\* the lists of n tool calls a vendor can issue next: ids are unique
CallLists(n) ==
    {[i \in 1..n |-> ToolCall(next_call_id + i - 1, ks[i].name, ks[i].arguments)] :
        ks \in [1..n -> CallKinds]}

Sentinel == Str("Maximum iterations reached. Task incomplete.")

\* agent.py 145-159 / 228-242: the registry after the mask is applied
Masked(registry) ==
    IF enable_web_search /\ "web_search" \in registry
    THEN registry \ {"wikipedia"}
    ELSE registry

\* a restore that puts the search tool back and forgets the other backups
RestoredSearchToolOnly(registry) ==
    registry \cup (IF web_search_tool_backup THEN {"web_search"} ELSE {})

\* agent.py 198-203, 207-211: the registry after the backups are put back
Restored(registry) ==
    registry \cup (IF web_search_tool_backup THEN {"web_search"} ELSE {})
             \cup other_search_tools_backup

\* agent.py 143-161 / 226-246: mask the registry and append the user message
Begin(user_input) ==
    /\ pc = "idle"
    /\ clock < MaxClock
    /\ web_search_tool_backup' = (enable_web_search /\ "web_search" \in tools)
    /\ other_search_tools_backup' =
          (IF enable_web_search /\ "web_search" \in tools
           THEN tools \cap {"wikipedia"} ELSE {})
    /\ tools_at_call' = tools
    /\ stream_tool_calls' = 0
    /\ callback_log' = <<>>
    /\ tools' = Masked(tools)
    /\ add(Message("user", user_input, NoToolCalls, NoId, clock + 1))
    /\ iteration' = 0
    /\ chunks' = 0
    /\ outcome' = NoOutcome
    /\ response' = NoResponse
    /\ tool_calls' = <<>>
    /\ results' = <<>>
    /\ invoked' = <<>>
    /\ raw_results' = <<>>
    /\ full_response' = Empty
    /\ UNCHANGED <<enable_web_search, max_iterations, next_call_id, besideAgent>>

\* the call ends, by a return or by an exception that leaves run()/stream()
End(how) ==
    /\ pc' = "idle"
    /\ outcome' = how

----------------------------------------------------------------------------
(* Agent.run (agent.py 131-212) *)

ResponseContents == {Empty, Str("answer")}

\* run(user_input, max_iterations): override = 0 stands for None (and for 0, which
\* `max_iterations or config.max_iterations` treats alike)
run_begin(override) ==
    /\ Begin(Str("Q"))
    /\ mode' = "run"
    /\ chats' = 0
    /\ max_iters' = (IF override = 0 THEN max_iterations ELSE override)
    /\ pc' = "chat"

\* a run() that catches the provider's error and returns an empty answer
ProviderErrorSwallowed ==
    /\ pc = "chat"
    /\ chats' = chats + 1
    /\ End(Returned(Empty))
    /\ UNCHANGED <<histVars, tools, enable_web_search, max_iterations, tools_at_call, besideAgent,
                   stream_tool_calls, callback_log, mode, max_iters,
                   iteration, web_search_tool_backup, other_search_tools_backup,
                   response, full_response, next_call_id, chunks, invoked,
                   raw_results, tool_calls, results>>

\* agent.py 170: provider.chat raises (transport, auth, rate limit)
run_provider_error ==
    /\ pc = "chat"
    /\ chats' = chats + 1
    /\ End(Raised("provider"))
    /\ UNCHANGED <<histVars, tools, enable_web_search, max_iterations, tools_at_call, besideAgent,
                   stream_tool_calls, callback_log, mode, max_iters,
                   iteration, web_search_tool_backup, other_search_tools_backup,
                   response, full_response, next_call_id, chunks, invoked,
                   raw_results, tool_calls, results>>

\* agent.py 170-176 and 195-204: provider.chat returns; the assistant message is
\* appended; a response without tool calls ends the run with its content.
\* Responses that carry tool calls are drawn with empty content only.
run_chat ==
    /\ pc = "chat"
    /\ \E n \in 0..MaxCalls : \E content \in ResponseContents : \E calls \in CallLists(n) :
         /\ clock + 1 + n <= MaxClock
         /\ (n > 0 => content = Empty)
         /\ response' = LLMResponse(content, calls)
         /\ tool_calls' = calls
         /\ results' = <<>>
         /\ next_call_id' = next_call_id + n
         /\ chats' = chats + 1
         /\ add(Message("assistant", content, calls, NoId, clock + 1))
         /\ invoked' = <<>>
         /\ raw_results' = <<>>
         /\ IF calls # <<>>
            THEN /\ pc' = "exec"
                 /\ UNCHANGED <<tools, outcome>>
            ELSE /\ tools' = Restored(tools)
                 /\ End(Returned(content))
    /\ UNCHANGED <<enable_web_search, max_iterations, tools_at_call, besideAgent,
                   stream_tool_calls, callback_log, mode, max_iters, iteration,
                   web_search_tool_backup, other_search_tools_backup, full_response,
                   chunks>>

\* agent.py 180 (441-472), one call per step; after the last call 183-194 append
\* the results and the loop goes on, or 206-212 end the run with the sentinel
run_exec ==
    /\ pc = "exec"
    /\ LET call == tool_calls[Len(results) + 1]
       IN  /\ invoked' = (IF call.name \in tools THEN Append(invoked, call.id) ELSE invoked)
           /\ \E o \in HandleCall(call, tools) :
                IF o.raised
                THEN /\ End(Raised("tool"))
                     /\ UNCHANGED <<histVars, tools, iteration, results, raw_results>>
                ELSE LET rs == Append(results, o.result)
                     IN  /\ raw_results' = Append(raw_results, o.returned)
                         /\ IF Len(rs) < Len(tool_calls)
                            THEN /\ results' = rs
                                 /\ UNCHANGED <<histVars, tools, iteration, pc, outcome>>
                            ELSE /\ results' = rs
                                 /\ messages' = AddToolResults(messages, max_messages, rs, clock)
                                 /\ clock' = clock + Len(rs)
                                 /\ last_added' = ToolMessage(Last(rs), clock + Len(rs))
                                 /\ persist(AddToolResults(messages, max_messages, rs, clock))
                                 /\ UNCHANGED max_messages
                                 /\ iteration' = iteration + 1
                                 /\ IF iteration + 1 < max_iters
                                    THEN /\ pc' = "chat"
                                         /\ UNCHANGED <<tools, outcome>>
                                    ELSE /\ tools' = Restored(tools)
                                         /\ End(Returned(Sentinel))
    /\ UNCHANGED <<enable_web_search, max_iterations, tools_at_call, besideAgent,
                   stream_tool_calls, callback_log, mode, max_iters,
                   web_search_tool_backup, other_search_tools_backup, response,
                   full_response, next_call_id, chats, chunks, tool_calls>>

----------------------------------------------------------------------------
(* Agent.stream (agent.py 214-298) *)

Deltas == {Empty, Str("x")}

\* a stream() that keeps only the latest chunk's delta
LatestDelta(full, chunk) == chunk.delta

\* agent.py 256: full_response += chunk.delta
Accumulated(full, chunk) == full \o chunk.delta

\* agent.py 226-255: the first provider.stream request is issued
stream_begin ==
    /\ Begin(Str("Q"))
    /\ mode' = "stream"
    /\ chats' = 1
    /\ max_iters' = max_iterations
    /\ pc' = "stream"

\* agent.py 255: the provider's generator raises
stream_provider_error ==
    /\ pc = "stream"
    /\ End(Raised("provider"))
    /\ UNCHANGED <<histVars, tools, enable_web_search, max_iterations, tools_at_call, besideAgent,
                   stream_tool_calls, callback_log, mode, max_iters,
                   iteration, web_search_tool_backup, other_search_tools_backup,
                   response, full_response, next_call_id, chats, chunks, invoked,
                   raw_results, tool_calls, results>>

\* agent.py 255-267: the generator yields a chunk; it is added to full_response
\* and handed to the callback (a callback is supplied) before its tool calls run
stream_chunk ==
    /\ pc = "stream"
    /\ chunks < MaxChunks
    /\ \E n \in 0..MaxChunkCalls : \E delta \in Deltas : \E calls \in CallLists(n) :
         /\ clock + n + 1 <= MaxClock
         /\ response' = StreamChunk(delta, calls)
         /\ next_call_id' = next_call_id + n
         /\ full_response' = Accumulated(full_response, StreamChunk(delta, calls))
         /\ callback_log' = Append(callback_log, StreamChunk(delta, calls))
         /\ stream_tool_calls' = stream_tool_calls + n
         /\ tool_calls' = calls
         /\ pc' = (IF calls # <<>> THEN "stream_exec" ELSE "stream")
    /\ chunks' = chunks + 1
    /\ results' = <<>>
    /\ invoked' = <<>>
    /\ raw_results' = <<>>
    /\ UNCHANGED <<histVars, tools, enable_web_search, max_iterations, tools_at_call, besideAgent,
                   mode, max_iters,
                   iteration, web_search_tool_backup, other_search_tools_backup, outcome,
                   chats>>

\* agent.py 267 (441-472), one call per step; after the last call 268-272 append
\* the results and the chunk loop goes on
stream_exec ==
    /\ pc = "stream_exec"
    /\ LET call == tool_calls[Len(results) + 1]
       IN  /\ invoked' = (IF call.name \in tools THEN Append(invoked, call.id) ELSE invoked)
           /\ \E o \in HandleCall(call, tools) :
                IF o.raised
                THEN /\ End(Raised("tool"))
                     /\ UNCHANGED <<histVars, results, raw_results>>
                ELSE LET rs == Append(results, o.result)
                     IN  /\ raw_results' = Append(raw_results, o.returned)
                         /\ IF Len(rs) < Len(tool_calls)
                            THEN /\ results' = rs
                                 /\ UNCHANGED <<histVars, pc, outcome>>
                            ELSE /\ results' = rs
                                 /\ messages' = AddToolResults(messages, max_messages, rs, clock)
                                 /\ clock' = clock + Len(rs)
                                 /\ last_added' = ToolMessage(Last(rs), clock + Len(rs))
                                 /\ persist(AddToolResults(messages, max_messages, rs, clock))
                                 /\ UNCHANGED <<max_messages, outcome>>
                                 /\ pc' = "stream"
    /\ UNCHANGED <<tools, enable_web_search, max_iterations, tools_at_call, besideAgent,
                   stream_tool_calls, callback_log, mode, max_iters, iteration,
                   web_search_tool_backup, other_search_tools_backup, response,
                   full_response, next_call_id, chats, chunks, tool_calls>>

\* agent.py 274-298: the generator is exhausted; the assistant message is appended
\* without tool calls, and the last message's tool_calls decide whether to loop
stream_end ==
    /\ pc = "stream"
    /\ clock < MaxClock
    /\ add(Message("assistant", full_response, NoToolCalls, NoId, clock + 1))
    /\ IF Last(messages').tool_calls # NoToolCalls
       THEN /\ iteration' = iteration + 1
            /\ IF iteration + 1 < max_iters
               THEN /\ pc' = "stream"
                    /\ chats' = chats + 1
                    /\ chunks' = 0
                    /\ stream_tool_calls' = 0
                    /\ UNCHANGED <<tools, outcome>>
               ELSE /\ tools' = Restored(tools)
                    /\ End(Returned(Sentinel))
                    /\ UNCHANGED <<chats, chunks, stream_tool_calls>>
       ELSE /\ tools' = Restored(tools)
            /\ End(Returned(full_response))
            /\ UNCHANGED <<iteration, chats, chunks, stream_tool_calls>>
    /\ UNCHANGED <<enable_web_search, max_iterations, tools_at_call, besideAgent,
                   callback_log, mode, max_iters,
                   web_search_tool_backup, other_search_tools_backup, response,
                   full_response, next_call_id, invoked, raw_results, tool_calls,
                   results>>

----------------------------------------------------------------------------
(* Spec: an agent after construction, driven by run() and stream() calls *)

\* config.max_history_messages (config.py 29)
DefaultMaxHistoryMessages == 50

\* Agent.__init__ (agent.py 42-61): the history holds the system prompt; the
\* agent is configured with auto_save_history off (config.py 130), so that its
\* appends write no file and create no metadata
Init ==
    /\ max_messages \in {MaxCap, DefaultMaxHistoryMessages}
    /\ messages = <<Message("system", Str("prompt"), NoToolCalls, NoId, 1)>>
    /\ clock = 1
    /\ last_added = Message("system", Str("prompt"), NoToolCalls, NoId, 1)
    /\ storage_file = "p1"
    /\ auto_save = FALSE
    /\ FreshStore
    /\ IdleAgent
    /\ IdleMCP
    /\ IdleCallers
    /\ IdleQuery
    /\ IdleParser
    /\ IdleProvider

Next ==
    \/ \E override \in 0..MaxIters : run_begin(override)
    \/ run_provider_error
    \/ run_chat
    \/ run_exec
    \/ stream_begin
    \/ stream_provider_error
    \/ stream_chunk
    \/ stream_exec
    \/ stream_end

Spec == Init /\ [][Next]_vars

----------------------------------------------------------------------------
(* The provider adapters' stream() generators (openai.py 234-277,            *)
(* anthropic.py 166-200, compatible.py 250-303)                              *)

\* the transport chunks one stream is followed over
MaxTransport == 3

TransportTexts == {Empty, Str("a"), Str("b")}

\* StreamChunk (providers/base.py 28-34), as an adapter yields it
EmittedChunk(content, delta, is_final, calls) ==
    [content |-> content, delta |-> delta, is_final |-> is_final, tool_calls |-> calls]

\* a chunk as the vendor's SDK delivers it: the event type (Anthropic), the text
\* or dumped tool input it carries, whether it carries a finish/stop reason,
\* and the tool calls of its delta (OpenAI family)
TransportChunk(type, text, finish, calls) ==
    [type |-> type, text |-> text, finish |-> finish, tool_calls |-> calls]

SomeCalls == <<ToolCall(1, "web_search", {"query"})>>

TransportChunks(a) ==
    IF a = "anthropic"
    THEN {TransportChunk("content_block_delta", t, FALSE, NoToolCalls) : t \in TransportTexts}
           \cup {TransportChunk("message_delta", Empty, f, NoToolCalls) : f \in BOOLEAN}
           \cup {TransportChunk("message_stop", Empty, FALSE, NoToolCalls),
                 TransportChunk("message_start", Empty, FALSE, NoToolCalls)}
    ELSE {TransportChunk("chunk", t, f, c) :
             t \in TransportTexts, f \in BOOLEAN, c \in {NoToolCalls, SomeCalls}}

\* parse_stream_chunk (openai.py 163-203, anthropic.py 90-112, compatible.py
\* 135-168): the delta, the final flag and the tool calls read off a chunk
parse_stream_chunk(a, c) ==
    IF a = "anthropic"
    THEN [delta |-> IF c.type = "content_block_delta" THEN c.text ELSE Empty,
          is_final |-> (c.type = "message_delta" /\ c.finish),
          tool_calls |-> NoToolCalls]
    ELSE [delta |-> c.text, is_final |-> c.finish, tool_calls |-> c.tool_calls]

\* a yield that reports the chunk's own delta as the content so far
YieldedDeltaAsContent(full, parsed, final) ==
    EmittedChunk(parsed.delta, parsed.delta, final, parsed.tool_calls)

\* the chunk an adapter yields: the content accumulated so far and the delta
Yielded(full, parsed, final) ==
    EmittedChunk(full, parsed.delta, final, parsed.tool_calls)

\* one turn of `for chunk in response` in the OpenAI family (openai.py 262-277,
\* compatible.py 290-303): accumulate, yield, stop after the final chunk
NativeStep(a) ==
    /\ generator = "running"
    /\ received < MaxTransport
    /\ \E c \in TransportChunks(a) :
         LET parsed == parse_stream_chunk(a, c)
             full == full_content \o parsed.delta
         IN  /\ full_content' = full
             /\ emitted' = Append(emitted, Yielded(full, parsed, parsed.is_final))
             /\ generator' = (IF parsed.is_final THEN "done" ELSE "running")
    /\ received' = received + 1
    /\ UNCHANGED <<adapter, native_streaming, histVars, agentVars, besideProvider>>

openai_stream ==
    /\ adapter = "openai"
    /\ NativeStep("openai")

compatible_stream ==
    /\ adapter = "compatible" /\ native_streaming
    /\ NativeStep("compatible")

\* compatible.py 260-269: without native tool support the whole response is
\* fetched and yielded as one final chunk
compatible_stream_fallback ==
    /\ adapter = "compatible" /\ ~native_streaming
    /\ generator = "running"
    /\ \E t \in TransportTexts : \E c \in {NoToolCalls, SomeCalls} :
         emitted' = Append(emitted, EmittedChunk(t, t, TRUE, c))
    /\ generator' = "done"
    /\ UNCHANGED <<adapter, native_streaming, received, full_content, histVars, agentVars,
                   besideProvider>>

\* anthropic.py 179-200: accumulate; a final chunk or message_stop is yielded as
\* final and ends the loop; other chunks are yielded only when their delta is
\* not empty (and then without tool calls)
anthropic_stream ==
    /\ adapter = "anthropic"
    /\ generator = "running"
    /\ received < MaxTransport
    /\ \E c \in TransportChunks("anthropic") :
         LET parsed == parse_stream_chunk("anthropic", c)
             full == full_content \o parsed.delta
         IN  /\ full_content' = full
             /\ IF parsed.is_final \/ c.type = "message_stop"
                THEN /\ emitted' = Append(emitted, Yielded(full, parsed, TRUE))
                     /\ generator' = "done"
                ELSE /\ emitted' = (IF parsed.delta # Empty
                                    THEN Append(emitted,
                                           Yielded(full, [parsed EXCEPT !.tool_calls = NoToolCalls],
                                                   FALSE))
                                    ELSE emitted)
                     /\ UNCHANGED generator
    /\ received' = received + 1
    /\ UNCHANGED <<adapter, native_streaming, histVars, agentVars, besideProvider>>

\* the transport's iterator is exhausted: the generator returns
transport_exhausted ==
    /\ generator = "running"
    /\ adapter # "compatible" \/ native_streaming
    /\ generator' = "done"
    /\ UNCHANGED <<adapter, native_streaming, received, full_content, emitted,
                   histVars, agentVars, besideProvider>>

\* a call of stream() on one of the three adapters
InitProvider ==
    /\ adapter \in {"openai", "anthropic", "compatible"}
    /\ native_streaming \in BOOLEAN
    /\ (adapter # "compatible" => native_streaming)
    /\ generator = "running"
    /\ received = 0
    /\ full_content = Empty
    /\ emitted = <<>>
    /\ messages = <<>>
    /\ max_messages = DefaultMaxHistoryMessages
    /\ clock = 0
    /\ last_added = NoMessage
    /\ storage_file = NoPath
    /\ auto_save = TRUE
    /\ FreshStore
    /\ IdleAgent
    /\ IdleMCP
    /\ IdleCallers
    /\ IdleQuery
    /\ IdleParser
    /\ enable_web_search = FALSE

NextProvider ==
    \/ openai_stream
    \/ compatible_stream
    \/ compatible_stream_fallback
    \/ anthropic_stream
    \/ transport_exhausted

SpecProvider == InitProvider /\ [][NextProvider]_vars

----------------------------------------------------------------------------
(* SpecStore: a ConversationHistory with a storage file, driven by appends,  *)
(* save() and load() (history.py 84-106, 124-181)                            *)

\* the appends of one behaviour, and the small capacity explored
MaxStoreAppends == 3
MaxStoreCap == 2

\* the messages add_system, add_user, add_assistant and add_tool_result build
StoreMessages(t) ==
    {Message("system", Str("S"), NoToolCalls, NoId, t),
     Message("user", Str("A"), NoToolCalls, NoId, t),
     Message("assistant", Empty, <<ToolCall(t, "web_search", {"query"})>>, NoId, t),
     Message("tool", Str("out"), NoToolCalls, 1, t)}

\* add_system / add_user / add_assistant / add_tool_result (history.py 92-106)
store_add ==
    /\ clock < MaxStoreAppends
    /\ \E m \in StoreMessages(clock + 1) : add(m)
    /\ UNCHANGED <<agentVars, besideAgent>>

\* save_path / load_path: the path argument, or else the storage file
Target(path) == IF path # NoPath THEN path ELSE storage_file

\* ConversationHistory.save (history.py 124-147); without any path it raises
\* ValueError before anything is written
save(path) ==
    /\ IF Target(path) = NoPath
       THEN UNCHANGED <<_metadata, files, snapshot>>
       ELSE /\ _metadata' = MetadataOf(_metadata, messages)
            /\ files' = [files EXCEPT ![Target(path)] =
                            FileOf(MetadataOf(_metadata, messages), messages)]
            /\ snapshot' = [snapshot EXCEPT ![Target(path)] = messages]
    /\ last_op' = "save"
    /\ last_path' = Target(path)
    /\ store_raised' = (Target(path) = NoPath)
    /\ UNCHANGED <<messages, max_messages, clock, last_added, storage_file, auto_save,
                   load_result>>
    /\ UNCHANGED <<agentVars, besideAgent>>

\* load() on a file that save() did not write (history.py 165-181): the caught
\* exceptions reset the store and give False; the AttributeError of data.get on a
\* list or string is not caught and leaves the store as it was; an object
\* without keys loads as an empty list and keeps the metadata
LoadCorrupt(file) ==
    IF file.shape \in CaughtShapes
    THEN [raised |-> FALSE, result |-> FALSE, messages |-> <<>>, metadata |-> NoMetadata]
    ELSE IF file.shape = "top_list"
    THEN [raised |-> TRUE, result |-> load_result, messages |-> messages,
          metadata |-> _metadata]
    ELSE [raised |-> FALSE, result |-> TRUE, messages |-> <<>>, metadata |-> _metadata]

\* load() on a path without a file (history.py 162-163): False, nothing touched
LoadMissing ==
    [raised |-> FALSE, result |-> FALSE, messages |-> messages, metadata |-> _metadata]

\* ConversationHistory.load (history.py 149-181): a missing file, a file that
\* save() wrote (metadata and messages rebuilt with from_dict), any other file
load(path) ==
    /\ Target(path) # NoPath
    /\ LET file == files[Target(path)]
           out == IF ~file.exists THEN LoadMissing
                  ELSE IF file.shape = "ok"
                  THEN [raised |-> FALSE, result |-> TRUE,
                        messages |-> [i \in 1..Len(file.messages) |->
                                         from_dict(file.messages[i])],
                        metadata |-> file.metadata]
                  ELSE LoadCorrupt(file)
       IN  /\ messages' = out.messages
           /\ _metadata' = out.metadata
           /\ load_result' = out.result
           /\ store_raised' = out.raised
    /\ last_op' = "load"
    /\ last_path' = Target(path)
    /\ UNCHANGED <<max_messages, clock, last_added, storage_file, auto_save, files,
                   snapshot>>
    /\ UNCHANGED <<agentVars, besideAgent>>

\* ConversationHistory(max_messages, storage_file="p1", auto_save)
InitStore ==
    /\ messages = <<>>
    /\ max_messages \in {MaxStoreCap, DefaultMaxHistoryMessages}
    /\ clock = 0
    /\ last_added = NoMessage
    /\ storage_file = "p1"
    /\ auto_save \in BOOLEAN
    /\ FreshStore
    /\ IdleAgent
    /\ IdleMCP
    /\ IdleCallers
    /\ IdleQuery
    /\ IdleParser
    /\ enable_web_search = FALSE
    /\ IdleProvider

NextStore ==
    \/ store_add
    \/ \E path \in {NoPath, "p2"} : save(path)
    \/ \E path \in {NoPath, "p2"} : load(path)

SpecStore == InitStore /\ [][NextStore]_vars

----------------------------------------------------------------------------
(* Properties of the history store (checked under SpecHistory) *)

Contains(msgs, m) == \E j \in 1..Len(msgs) : msgs[j] = m

Contents(msgs) == [i \in 1..Len(msgs) |-> msgs[i].content]

SystemCount(msgs) == Len(SelectSeq(msgs, IsSystem))

\* the k most recent entries of s (all of s when it has fewer), for k >= 1
MostRecent(s, k) == [i \in 1..(IF k < Len(s) THEN k ELSE Len(s)) |->
                        s[i + (IF k < Len(s) THEN Len(s) - k ELSE 0)]]

\* C3: every append keeps every system message: each system message that was in
\* the store before the append is in the store after the trim the append
\* triggered, and so is the appended message when it is a system message.
C3_SystemMessagesSurviveTrim ==
    [][clock' = clock + 1 =>
         /\ \A i \in 1..Len(messages) :
               IsSystem(messages[i]) => Contains(messages', messages[i])
         /\ IsSystem(last_added') => Contains(messages', last_added')]_vars

\* C3 witness: capacity 3, a system message appended third (after two others) has
\* come through the trims of the fourth and fifth append.
C3_Witness ==
    /\ max_messages = 3
    /\ clock = 5
    /\ Len(messages) = 3
    /\ IsSystem(messages[1]) /\ messages[1].timestamp = 3
    /\ IsNonSystem(messages[2]) /\ IsNonSystem(messages[3])

\* C4: the messages in the store are in the order in which they were appended
\* (timestamps strictly increase along the list), also when a system message was
\* appended after non-system messages.
C4_AppendOrderKept ==
    \A i, j \in 1..Len(messages) :
        i < j => messages[i].timestamp < messages[j].timestamp

\* C5: after every append the store holds at most max(maxMessages, number of
\* system messages) messages.
C5_SizeBounded ==
    LET n == SystemCount(messages)
    IN  Len(messages) <= (IF n > max_messages THEN n ELSE max_messages)

\* C6: when an append pushes the count above maxMessages and there are fewer
\* system messages than maxMessages, the non-system messages kept are exactly the
\* most recent (maxMessages - system count) non-system messages; with capacity 3,
\* appending user C to [S, A, B] leaves [S, B, C].
C6_KeepsMostRecentNonSystem ==
    [][clock' = clock + 1 =>
         LET all == Append(messages, last_added')
             n == SystemCount(all)
         IN  /\ (Len(all) > max_messages /\ n < max_messages) =>
                   SelectSeq(messages', IsNonSystem)
                     = MostRecent(SelectSeq(all, IsNonSystem), max_messages - n)
             /\ ( /\ max_messages = 3
                  /\ Contents(messages) = <<Str("S"), Str("A"), Str("B")>>
                  /\ IsSystem(messages[1])
                  /\ last_added'.role = "user" /\ last_added'.content = Str("C") )
                => Contents(messages') = <<Str("S"), Str("B"), Str("C")>>]_vars

\* C6 witness: the example's final store, system S then users B and C, reached by
\* the fourth append into a store of capacity 3.
C6_Witness ==
    /\ max_messages = 3
    /\ clock = 4
    /\ Contents(messages) = <<Str("S"), Str("B"), Str("C")>>
    /\ messages[1].timestamp = 1 /\ messages[2].timestamp = 3
    /\ messages[3].timestamp = 4

----------------------------------------------------------------------------
(* Properties of the agent loop (checked under Spec) *)

InExec == pc \in {"exec", "stream_exec"}

\* the call of the list that handling has reached (or raised in)
Registered(call) == call.name \in tools

Mentions(content, name) == \E p \in 1..Len(content) : content[p] = name

\* C1: in run(), while the history capacity is not exceeded, every assistant
\* message carrying N >= 1 tool calls whose handling is over is directly followed
\* by exactly N tool messages, the k-th of them carrying the id of the k-th call.
C1_ToolMessagesFollowTheirCalls ==
    clock <= max_messages =>
      \A i \in 1..Len(messages) :
        LET m == messages[i]
            n == Len(m.tool_calls)
        IN  (m.role = "assistant" /\ n >= 1 /\ ~(pc = "exec" /\ i = Len(messages))) =>
              /\ i + n <= Len(messages)
              /\ \A k \in 1..n :
                    /\ messages[i + k].role = "tool"
                    /\ messages[i + k].tool_call_id = m.tool_calls[k].id
              /\ (i + n < Len(messages) => messages[i + n + 1].role # "tool")

\* C2: a run() with budget M issues at most M provider requests and, unless the
\* provider fails, returns: the content of the response without tool calls, or
\* the sentinel once all M responses carried tool calls.
C2_RunReturnsWithinBudget ==
    mode = "run" =>
      /\ chats <= max_iters
      /\ (pc = "idle" /\ outcome.by # "provider") =>
            /\ outcome.kind = "returned"
            /\ IF response.tool_calls = NoToolCalls
               THEN outcome.value = response.content
               ELSE chats = max_iters /\ outcome.value = Sentinel

\* C7: every tool message in the history carries the id of a tool call of an
\* assistant message that stands earlier in the history.
C7_ToolMessagesReferToEarlierCall ==
    \A i \in 1..Len(messages) :
        messages[i].role = "tool" =>
          \E j \in 1..(i - 1) :
            /\ messages[j].role = "assistant"
            /\ \E k \in 1..Len(messages[j].tool_calls) :
                  messages[j].tool_calls[k].id = messages[i].tool_call_id

\* C8: executing the tool calls of a response never raises: no run() or stream()
\* call ends with an exception that came out of a tool.
C8_ToolExecutionNeverRaises ==
    ~(outcome.kind = "raised" /\ outcome.by = "tool")

\* C9: a call whose name is not registered yields a failed result that names the
\* missing tool and carries the call's id; no tool is invoked for it, it never is
\* the call that raises, and the calls after it are handled.
C9_UnknownToolYieldsFailedResult ==
    /\ \A k \in 1..Len(results) :
          ~Registered(tool_calls[k]) =>
            /\ ~results[k].success
            /\ results[k].tool_call_id = tool_calls[k].id
            /\ Mentions(results[k].content, tool_calls[k].name)
    /\ \A p \in 1..Len(invoked) :
          \E k \in 1..Len(tool_calls) :
             tool_calls[k].id = invoked[p] /\ Registered(tool_calls[k])
    /\ (outcome.kind = "raised" /\ outcome.by = "tool") =>
          /\ Len(results) < Len(tool_calls)
          /\ Registered(tool_calls[Len(results) + 1])
    /\ InExec => Len(results) < Len(tool_calls)

\* C9 witness: the first of two calls named a tool that is not registered, its
\* failed result is in the list, and the second call has been handled after it.
C9_Witness ==
    /\ Len(tool_calls) = 2 /\ Len(results) = 2
    /\ ~Registered(tool_calls[1])
    /\ ~results[1].success
    /\ Registered(tool_calls[2])
    /\ invoked = <<tool_calls[2].id>>

\* C10: in run(), once the tool results of an iteration are appended the loop is
\* at the next provider call when budget remains, whatever the results; and a
\* run ends only on a response without tool calls, on the exhausted budget, or
\* on a provider error.
C10_RunEndsOnlyByAnswerBudgetOrProviderError ==
    mode = "run" =>
      /\ (outcome.kind = "none" /\ Last(messages).role = "tool") =>
            pc = "chat" /\ iteration < max_iters
      /\ pc = "idle" =>
            \/ outcome.kind = "raised" /\ outcome.by = "provider"
            \/ outcome.kind = "returned" /\ response.tool_calls = NoToolCalls
            \/ outcome = Returned(Sentinel) /\ iteration = max_iters

\* what a failed result says went wrong: its error text, or its content when the
\* failure is described there (the unknown-tool result)
FailureDescription(r) == IF r.error # NoError THEN r.error ELSE r.content

BatchAppended == results # <<>> /\ Len(results) = Len(tool_calls) /\ ~InExec

\* C11: for every tool call whose result has success = false, the tool message
\* appended for it carries the failure description in its content (it is not
\* empty and holds the description's text).
C11_FailureVisibleInToolMessage ==
    BatchAppended =>
      \A k \in 1..Len(results) :
        ~results[k].success =>
          \A i \in 1..Len(messages) :
            (messages[i].role = "tool"
               /\ messages[i].tool_call_id = results[k].tool_call_id) =>
              /\ messages[i].content # Empty
              /\ \A p \in 1..Len(FailureDescription(results[k])) :
                    Mentions(messages[i].content, FailureDescription(results[k])[p])


Executed(k) == raw_results[k] # NotExecuted

\* C12: a web_search call whose execute returned success = false is replaced by
\* a result with success = true, empty content and the call's id, and that is
\* what the history receives; a failing result of any other tool stays failed
\* (only its id is set to the call's).
C12_FailingSearchCoercedToEmptySuccess ==
    /\ Len(raw_results) = Len(results)
    /\ \A k \in 1..Len(results) :
         (Executed(k) /\ ~raw_results[k].success) =>
           /\ IF tool_calls[k].name = "web_search"
              THEN results[k] = ToolResult(TRUE, Empty, tool_calls[k].id, NoError)
              ELSE results[k] = [raw_results[k] EXCEPT !.tool_call_id = tool_calls[k].id]
           /\ \A i \in 1..Len(messages) :
                (messages[i].role = "tool"
                   /\ messages[i].tool_call_id = tool_calls[k].id) =>
                  messages[i].content = results[k].content

\* C12 witness: a batch of two calls was appended; the search tool's failure
\* became an empty success and the other tool's failure stayed a failure.
C12_Witness ==
    /\ BatchAppended /\ Len(results) = 2
    /\ \E k, j \in 1..2 :
         /\ tool_calls[k].name = "web_search" /\ Executed(k)
         /\ ~raw_results[k].success /\ results[k].success
         /\ tool_calls[j].name = "wikipedia" /\ Executed(j)
         /\ ~raw_results[j].success /\ ~results[j].success
    /\ \E i \in 1..Len(messages) :
         messages[i].role = "tool" /\ messages[i].tool_call_id = tool_calls[1].id


\* a step of run() in which a provider request was issued and failed: the request
\* is counted and no assistant message came of it
ChatFailed == mode = "run" /\ pc = "chat" /\ chats' = chats + 1 /\ clock' = clock

\* C13: when the provider's chat call fails, run() ends with the provider's error
\* right there: no further request follows in that call, no tool is executed and
\* no message is appended for that iteration. A failing provider stream ends
\* stream() the same way, with nothing appended after the failure.
C13_ProviderErrorPropagatesWithoutRetry ==
    [][ /\ ChatFailed =>
             /\ pc' = "idle" /\ outcome' = Raised("provider")
             /\ messages' = messages
             /\ invoked' = invoked /\ results' = results
        /\ (outcome.kind = "none" /\ outcome'.by = "provider") =>
             /\ pc' = "idle" /\ outcome'.kind = "raised"
             /\ messages' = messages /\ invoked' = invoked
             /\ chats' <= chats + 1 ]_vars

\* C13 witness: the second provider request of a run() failed; the run is over,
\* the first iteration's tool message is still the last message in the history.
C13_Witness ==
    /\ mode = "run" /\ pc = "idle"
    /\ outcome = Raised("provider")
    /\ chats = 2 /\ iteration = 1
    /\ Last(messages).role = "tool"


\* the loop is about to issue (or is consuming) a provider request, for which it
\* has built tool_defs from the registry as it stands
AtProviderCall == pc \in {"chat", "stream"}

\* C14: when the force-web-search flag is set and the search tool is registered,
\* the tool set passed to the provider on every provider call of the run()/stream()
\* holds the search tool and no other tool.
C14_OnlySearchToolVisibleWhenForced ==
    (AtProviderCall /\ web_search_tool_backup) => tools = {"web_search"}


\* C15: when run() or stream() returns, with a final answer or with the
\* max-iterations sentinel, the registry holds exactly the tools it held before
\* the call, whether or not the force-web-search flag was set.
C15_RegistryRestoredOnReturn ==
    (pc = "idle" /\ outcome.kind = "returned") => tools = tools_at_call

\* C15 witness: with the flag set, a call masked wikipedia out of the full
\* registry and has returned the sentinel; the registry is whole again.
C15_Witness ==
    /\ pc = "idle" /\ outcome = Returned(Sentinel)
    /\ enable_web_search /\ web_search_tool_backup
    /\ other_search_tools_backup = {"wikipedia"}
    /\ tools_at_call = BuiltinTools
    /\ tools = BuiltinTools

\* C16: the visibility policy is not a registry mutation: the registry is never
\* changed in the middle of a turn, and after a run()/stream() call has ended in
\* any way (a return, a provider error, a raising tool) it holds the tools it
\* held before the call.
C16_RegistryNeverMutatedByACall ==
    tools = tools_at_call


\* C17: stream() follows the loop of run(): after a provider stream whose chunks
\* carried tool calls the provider is called again, so that stream() returns its
\* answer only after a provider stream that carried no tool call, or the sentinel
\* once max_iterations provider streams have all carried tool calls.
C17_StreamLoopsAfterToolCalls ==
    (mode = "stream" /\ pc = "idle" /\ outcome.kind = "returned") =>
       IF stream_tool_calls = 0
       THEN outcome.value = full_response
       ELSE outcome.value = Sentinel /\ chats = max_iters


RECURSIVE ConcatDeltas(_)
ConcatDeltas(cs) == IF cs = <<>> THEN Empty ELSE Head(cs).delta \o ConcatDeltas(Tail(cs))

\* C18: in stream(), every chunk the provider yields is handed to the callback
\* exactly once, in the order yielded and before the next chunk is read (each
\* chunk read extends the callback's log by that chunk, and nothing else changes
\* the log during the call), and the string returned as the final answer is the
\* concatenation of the deltas of the chunks received.
C18_ChunksDeliveredInOrderAndConcatenated ==
    [][ /\ (mode = "stream" /\ pc = "stream" /\ chunks' = chunks + 1) =>
             callback_log' = Append(callback_log, response')
        /\ (mode = "stream" /\ pc # "idle" /\ chunks' = chunks) =>
             callback_log' = callback_log
        /\ (mode' = "stream" /\ pc' = "idle" /\ outcome'.kind = "returned"
              /\ outcome'.value # Sentinel) =>
             outcome'.value = ConcatDeltas(callback_log') ]_vars

\* C18 witness: stream() has returned "xx" after two chunks with delta "x" each
\* went to the callback, the first of them carrying a tool call.
C18_Witness ==
    /\ mode = "stream" /\ pc = "idle"
    /\ outcome = Returned(Str("x") \o Str("x"))
    /\ Len(callback_log) = 2
    /\ callback_log[1].delta = Str("x") /\ callback_log[1].tool_calls # NoToolCalls
    /\ callback_log[2].delta = Str("x")


----------------------------------------------------------------------------
(* Properties of the provider adapters (checked under SpecProvider) *)

\* C19: in every adapter's stream(), for every sequence of transport chunks, a
\* chunk with is_final = true is the last chunk emitted (nothing is emitted once
\* it went out, whatever the transport still holds), and the deltas of the
\* emitted chunks, concatenated in emission order, equal the content field of
\* the last emitted chunk.
C19_FinalChunkIsLastAndContentIsDeltas ==
    /\ \A i \in 1..Len(emitted) : emitted[i].is_final => i = Len(emitted)
    /\ (emitted # <<>> /\ Last(emitted).is_final) => generator = "done"
    /\ emitted # <<>> => ConcatDeltas(emitted) = Last(emitted).content

\* C19 witness: the Anthropic adapter read three transport chunks, one of them
\* without text that it did not emit, and closed the stream with a final chunk
\* whose content is the text emitted before it.
C19_Witness ==
    /\ adapter = "anthropic" /\ generator = "done"
    /\ received = 3 /\ Len(emitted) = 2
    /\ emitted[1].delta = Str("a") /\ ~emitted[1].is_final
    /\ emitted[2].is_final /\ emitted[2].delta = Empty
    /\ emitted[2].content = Str("a")


----------------------------------------------------------------------------
(* Properties of persistence (checked under SpecStore) *)

\* the latest operation was a load() of a file that a save() had written
LoadedASavedFile == last_op = "load" /\ files[last_path].shape = "ok"

\* C20: for every store reachable by appends (messages of any role, with or
\* without tool calls), save(path) followed by load(path) returns true and
\* restores a message list equal to the saved one in content and order (read as
\* the store's consumers read messages, through to_dict), with the metadata's
\* message count equal to the number of messages restored.
C20_SaveLoadRoundTrip ==
    LoadedASavedFile =>
      /\ load_result = TRUE
      /\ to_dicts(messages) = to_dicts(snapshot[last_path])
      /\ _metadata.message_count = Len(messages)

\* C20 witness: two messages, the second an assistant message with a tool call,
\* were saved to a path; a third append changed the store; load() of that path
\* has brought the two saved messages back.
C20_Witness ==
    /\ LoadedASavedFile /\ last_path = "p2" /\ load_result = TRUE
    /\ clock = 3
    /\ Len(messages) = 2
    /\ messages[1].timestamp = 1 /\ messages[2].timestamp = 2
    /\ messages[2].role = "assistant" /\ messages[2].tool_calls # NoToolCalls

-----------------------------------------------------------------------------
(* The store loading files it did not write (specification SpecLoad): the
   storage file is "p1", auto-save is off, and "p2" is missing or holds a file
   of one of the corrupt shapes *)

ForeignFiles == {Absent} \cup {Corrupt(shape) : shape \in CorruptShapes}

InitLoad ==
    /\ messages = <<>>
    /\ max_messages \in {MaxStoreCap, DefaultMaxHistoryMessages}
    /\ clock = 0
    /\ last_added = NoMessage
    /\ storage_file = "p1"
    /\ auto_save = FALSE
    /\ _metadata = NoMetadata
    /\ \E f \in ForeignFiles : files = [p \in Paths |-> IF p = "p2" THEN f ELSE Absent]
    /\ snapshot = [p \in Paths |-> <<>>]
    /\ last_op = "init"
    /\ last_path = NoPath
    /\ load_result = FALSE
    /\ store_raised = FALSE
    /\ IdleAgent
    /\ IdleMCP
    /\ IdleCallers
    /\ IdleQuery
    /\ IdleParser
    /\ enable_web_search = FALSE
    /\ IdleProvider

NextLoad ==
    \/ store_add
    \/ save(NoPath)
    \/ load(NoPath)
    \/ load("p2")

SpecLoad == InitLoad /\ [][NextLoad]_vars

\* the corrupt files the load contract names: text that is not JSON, a wrong
\* top-level type, a metadata or message object with missing or unknown fields
SchemaMismatches == {"not_json", "top_scalar", "top_list", "bad_metadata", "bad_message"}

\* C21: load() of a file that is not valid JSON or does not match the schema
\* (wrong top-level type, metadata or message object with missing or unknown
\* fields) returns false without raising and leaves the store with an empty
\* message list and no metadata.
C21_CorruptFileLoadsAsEmptyStore ==
    (last_op = "load" /\ files[last_path].shape \in SchemaMismatches)
        => /\ ~store_raised
           /\ load_result = FALSE
           /\ messages = <<>>
           /\ _metadata = NoMetadata

\* C22: load() of a path that holds no file does not raise, reports failure, and
\* leaves the message list empty.
C22_MissingFileLoadsAsEmptyStore ==
    (last_op = "load" /\ ~files[last_path].exists)
        => /\ ~store_raised
           /\ load_result = FALSE
           /\ messages = <<>>

-----------------------------------------------------------------------------
(* The agent's store across sessions (specification SpecSession): the store as
   Agent.__init__ leaves it, then appends, clear() and Agent.switch_session *)

SessionNames == {"s2", "s3"}

\* the default system prompt the constructor and switch_session append
SystemPrompt(t) == Message("system", Str("S"), NoToolCalls, NoId, t)

\* ConversationHistory.clear (history.py 117-122): the list and the metadata are
\* dropped; the auto-save then writes the empty list with fresh default metadata
clear ==
    /\ messages' = <<>>
    /\ IF auto_save /\ storage_file # NoPath
       THEN /\ _metadata' = MetadataOf(NoMetadata, <<>>)
            /\ files' = [files EXCEPT ![storage_file] =
                            FileOf(MetadataOf(NoMetadata, <<>>), <<>>)]
            /\ snapshot' = [snapshot EXCEPT ![storage_file] = <<>>]
       ELSE /\ _metadata' = NoMetadata
            /\ UNCHANGED <<files, snapshot>>
    /\ last_op' = "clear"
    /\ last_path' = NoPath
    /\ store_raised' = FALSE
    /\ UNCHANGED <<max_messages, clock, last_added, storage_file, auto_save, load_result>>
    /\ UNCHANGED <<agentVars, besideAgent>>

\* ConversationHistory.set_session_name (history.py 272-279)
set_session_name(name) == SessionMetadata(name, Len(messages))

\* Agent.switch_session (agent.py 332-351): the current session is saved when
\* auto-save is on, the metadata is replaced by one carrying the new name, and
\* then line 346 divides config.history_storage_dir, a str (config.py 36), by a
\* str: TypeError. The storage path and the message list are never reached.
switch_session(name) ==
    /\ IF auto_save /\ storage_file # NoPath
       THEN /\ files' = [files EXCEPT ![storage_file] =
                            FileOf(MetadataOf(_metadata, messages), messages)]
            /\ snapshot' = [snapshot EXCEPT ![storage_file] = messages]
       ELSE UNCHANGED <<files, snapshot>>
    /\ _metadata' = set_session_name(name)
    /\ store_raised' = TRUE
    /\ last_op' = "switch_session"
    /\ last_path' = storage_file
    /\ UNCHANGED <<messages, max_messages, clock, last_added, storage_file, auto_save,
                   load_result>>
    /\ UNCHANGED <<agentVars, besideAgent>>

\* the store after Agent.__init__ (agent.py 50-65): the storage file of the
\* default session, and the system prompt appended (and auto-saved)
InitSession ==
    /\ messages = <<SystemPrompt(1)>>
    /\ max_messages \in {MaxStoreCap, DefaultMaxHistoryMessages}
    /\ clock = 1
    /\ last_added = SystemPrompt(1)
    /\ storage_file = "p1"
    /\ auto_save \in BOOLEAN
    /\ _metadata = IF auto_save THEN MetadataOf(NoMetadata, messages) ELSE NoMetadata
    /\ files = [p \in Paths |->
                  IF auto_save /\ p = "p1"
                  THEN FileOf(MetadataOf(NoMetadata, messages), messages)
                  ELSE Absent]
    /\ snapshot = [p \in Paths |-> IF auto_save /\ p = "p1" THEN messages ELSE <<>>]
    /\ last_op = "add"
    /\ last_path = NoPath
    /\ load_result = FALSE
    /\ store_raised = FALSE
    /\ IdleAgent
    /\ IdleMCP
    /\ IdleCallers
    /\ IdleQuery
    /\ IdleParser
    /\ enable_web_search = FALSE
    /\ IdleProvider

NextSession ==
    \/ store_add
    \/ clear
    \/ \E name \in SessionNames : switch_session(name)

SpecSession == InitSession /\ [][NextSession]_vars

\* the file of a session: history_storage_dir / "{name}.json"
SessionFile(name) == IF name = "default" THEN "p1" ELSE "p2"

\* C23: after switch_session(name) the metadata's session name and the storage
\* path refer to the new name, the in-memory log is exactly one system message,
\* and with auto-save on the previous session's file holds the pre-switch list.
C23_SwitchSessionRebindsAndResets ==
    last_op = "switch_session"
        => /\ ~store_raised
           /\ _metadata.session_name \in SessionNames
           /\ storage_file = SessionFile(_metadata.session_name)
           /\ Len(messages) = 1
           /\ messages[1].role = "system"
           /\ auto_save => /\ files[last_path].exists
                           /\ files[last_path].messages = to_dicts(snapshot[last_path])

\* C30: with auto-save on and a storage file set, when an append or clear()
\* returns, the storage file holds exactly the in-memory list after trimming,
\* in order, with the store's current metadata.
C30_FileFollowsEveryAppend ==
    (auto_save /\ storage_file # NoPath /\ last_op \in {"add", "clear"})
        => /\ _metadata # NoMetadata
           /\ files[storage_file] = FileOf(_metadata, messages)

\* C30 witness: with auto-save on, the append that filled the clock has returned
\* from a store of capacity MaxStoreCap that had to trim; the system prompt is
\* kept and the file holds the trimmed list.
C30_Witness ==
    /\ auto_save
    /\ last_op = "add"
    /\ max_messages = MaxStoreCap
    /\ Len(messages) = MaxStoreCap
    /\ clock = MaxStoreAppends
    /\ messages[1].role = "system"
    /\ files[storage_file].messages = to_dicts(messages)

-----------------------------------------------------------------------------
(* MCP: the clients, the registry and the agent's lazy connection
   (specification SpecMCP) *)

\* the highest request id a client reaches, and the longest registry list
MaxRequestId == 5
MaxRegistered == 4

\* how the subprocess behaves during one MCPClient.connect:
\*   "spawn_error"     subprocess.Popen raises
\*   "init_failed"     the initialize request gets no line, a line that is not
\*                     JSON, or a response whose result is missing or empty
\*   "list_none"       initialize succeeds; tools/list gets no line, a line that
\*                     is not JSON, or a response without result
\*   "list_malformed"  initialize succeeds; the tools/list result holds a tool
\*                     entry without "name" (KeyError in client.py 249-252)
\*   "ok"              initialize succeeds and tools/list returns the tools
ConnectKinds == {"spawn_error", "init_failed", "list_none", "list_malformed", "ok"}

OfferedSets == {{"t1"}, {"t1", "t2"}}

Behaviours ==
    {[kind |-> k, tools |-> {}] : k \in ConnectKinds \ {"ok"}}
        \cup {[kind |-> "ok", tools |-> T] : T \in OfferedSets}

\* requests _send_request wrote during the attempt (client.py 143, 243)
Requests(b) ==
    IF b.kind = "spawn_error" THEN 0 ELSE IF b.kind = "init_failed" THEN 1 ELSE 2

\* a connect() that starts a fresh id sequence for every subprocess
ClientConnectRestartingIds(s, b) ==
    [success   |-> b.kind \in {"ok", "list_none"},
     connected |-> IF b.kind \in {"ok", "list_none", "list_malformed"}
                   THEN TRUE ELSE _connected[s],
     process   |-> IF b.kind = "spawn_error" THEN _process[s] ELSE TRUE,
     pipes     |-> IF b.kind = "spawn_error" THEN _pipes[s] ELSE TRUE,
     request_id |-> IF b.kind = "spawn_error" THEN _request_id[s] ELSE Requests(b),
     tools     |-> IF b.kind = "ok" THEN b.tools ELSE client_tools[s]]

\* MCPClient.connect (client.py 121-175) and _list_tools (242-252), for the
\* client of server s: what it returns and how it leaves the client. _connected
\* is set at line 164, before the tool listing, and nothing resets it when the
\* attempt fails.
ClientConnect(s, b) ==
    [success   |-> b.kind \in {"ok", "list_none"},
     connected |-> IF b.kind \in {"ok", "list_none", "list_malformed"}
                   THEN TRUE ELSE _connected[s],
     process   |-> IF b.kind = "spawn_error" THEN _process[s] ELSE TRUE,
     pipes     |-> IF b.kind = "spawn_error" THEN _pipes[s] ELSE TRUE,
     request_id |-> _request_id[s] + Requests(b),
     tools     |-> IF b.kind = "ok" THEN b.tools ELSE client_tools[s]]

\* the name an MCP tool gets in the registry and in Agent.tools
\* (registry.py 168, tool.py 48)
MCPToolName(s, t) == "mcp_" \o s \o "_" \o t

\* RegisteredTool (registry.py 11-18), as _register_tools builds it
RegisteredTool(s, t) ==
    [name |-> MCPToolName(s, t), server_name |-> s, is_available |-> TRUE]

\* MCPToolRegistry._register_tools (registry.py 159-173): one entry per tool of
\* the client, appended to the list
_register_tools(s, T) ==
    LET listed == SelectSeq(ToolOrder, LAMBDA t : t \in T)
    IN  [i \in 1..Len(listed) |-> RegisteredTool(s, listed[i])]

\* the clients one MCPToolRegistry.connect call works on (registry.py 127-142)
Targets(name) == IF name = NoServer THEN Servers ELSE {name}

\* a connect-all loop that gives up at the first server that fails
AttemptedUntilFailure(name, bs) ==
    IF name = NoServer
    THEN {ServerOrder[i] : i \in {j \in 1..Len(ServerOrder) :
             \A k \in 1..(j - 1) : bs[ServerOrder[k]].kind \in {"ok", "list_none"}}}
    ELSE {name}

\* the clients whose connect() is called: every target, whatever the earlier
\* ones did (registry.py 134-142)
Attempted(name, bs) == Targets(name)

\* the entries one connect call appends, server by server
RECURSIVE RegisterEach(_, _, _)
RegisterEach(order, att, c) ==
    IF order = <<>> THEN <<>>
    ELSE (IF Head(order) \in att /\ c[Head(order)].success
          THEN _register_tools(Head(order), c[Head(order)].tools)
          ELSE <<>>) \o RegisterEach(Tail(order), att, c)

agentVarsButTools ==
    <<enable_web_search, max_iterations, pc, mode, max_iters, iteration,
      web_search_tool_backup, other_search_tools_backup, response, tool_calls,
      results, full_response, outcome, next_call_id, chats, chunks, invoked,
      raw_results, tools_at_call, stream_tool_calls, callback_log>>

\* Agent.connect_mcp_servers (agent.py 364-403) with MCPToolRegistry.connect
\* (registry.py 115-144): one server, or all of them when name is NoServer;
\* then a wrapper in Agent.tools for every tool of every connected client
connect_mcp_servers(name) ==
    /\ \A s \in Targets(name) : _request_id[s] + 2 <= MaxRequestId
    /\ Len(registry_tools) + Cardinality(Targets(name)) * Cardinality(ToolNames)
           <= MaxRegistered
    /\ \E bs \in [Targets(name) -> Behaviours] :
         LET att == Attempted(name, bs)
             c == [s \in att |-> ClientConnect(s, bs[s])]
             connected == [s \in Servers |->
                              IF s \in att THEN c[s].connected ELSE _connected[s]]
             listed == [s \in Servers |->
                           IF s \in att THEN c[s].tools ELSE client_tools[s]]
             results_ == [s \in Servers |->
                             IF s \notin att THEN "absent"
                             ELSE IF c[s].success THEN "true" ELSE "false"]
         IN  /\ _connected' = connected
             /\ _process' = [s \in Servers |->
                               IF s \in att THEN c[s].process ELSE _process[s]]
             /\ _pipes' = [s \in Servers |->
                             IF s \in att THEN c[s].pipes ELSE _pipes[s]]
             /\ _request_id' = [s \in Servers |->
                                  IF s \in att THEN c[s].request_id ELSE _request_id[s]]
             /\ written' = [s \in Servers |->
                              IF s \in att
                              THEN written[s] \o [i \in 1..Requests(bs[s]) |->
                                       c[s].request_id - Requests(bs[s]) + i]
                              ELSE written[s]]
             /\ client_tools' = listed
             /\ registry_tools' = registry_tools \o RegisterEach(ServerOrder, att, c)
             /\ tools' = IF name = NoServer \/ results_[name] = "true"
                         THEN tools \cup {MCPToolName(s, t) :
                                 <<s, t>> \in {p \in Servers \X ToolNames :
                                     connected[p[1]] /\ p[2] \in listed[p[1]]}}
                         ELSE tools
             /\ session' = [s \in Servers |->
                              IF s \notin att THEN session[s]
                              ELSE IF c[s].success THEN "ready" ELSE "failed"]
             /\ mcp_last' = MCPOutcome(IF name = NoServer THEN "connect_all" ELSE "connect",
                               name, results_,
                               [s \in Servers |->
                                   IF s \in Targets(name) THEN bs[s].kind ELSE "none"],
                               [s \in Servers |->
                                   IF s \in Targets(name) THEN bs[s].tools ELSE {}],
                               NoCall)
    /\ UNCHANGED <<agentVarsButTools, besideMCP>>

\* MCPToolRegistry.disconnect (registry.py 146-157) with MCPClient.disconnect
\* (client.py 177-184): the registry's tool list is not touched
disconnect(name) ==
    /\ _connected' = [s \in Servers |-> IF s \in Targets(name) THEN FALSE ELSE _connected[s]]
    /\ _process' = [s \in Servers |-> IF s \in Targets(name) THEN FALSE ELSE _process[s]]
    /\ _pipes' = [s \in Servers |-> IF s \in Targets(name) THEN FALSE ELSE _pipes[s]]
    /\ session' = [s \in Servers |->
                     IF s \in Targets(name) THEN "disconnected" ELSE session[s]]
    /\ mcp_last' = MCPOutcome("disconnect", name, [s \in Servers |-> "absent"],
                              [s \in Servers |-> "none"], [s \in Servers |-> {}], NoCall)
    /\ UNCHANGED <<_request_id, client_tools, registry_tools, written>>
    /\ UNCHANGED <<agentVars, besideMCP>>

\* the line the subprocess answers a tools/call request with:
\*   "result"        {"result": {"content": ...}}
\*   "empty_result"  {"result": {}}
\*   "error"         {"error": {"message": ...}}
\*   "error_text"    {"error": "..."}: the error member is not an object
\*   "notification"  a frame with neither result nor error (a server notification)
\*   "none"          no line, or a line that is not JSON
\* and with the id it carries: "same" as the request just written, "other" (a
\* late reply to an earlier request), or "absent"
Frame(kind, id, content, message) ==
    [kind |-> kind, id |-> id, content |-> content, message |-> message]

Frames ==
    {Frame("result", "same", Str("out"), Empty), Frame("empty_result", "same", Empty, Empty),
     Frame("error", "same", Empty, Str("boom")),
     Frame("error_text", "same", Empty, Str("boom")),
     Frame("result", "other", Str("out"), Empty),
     Frame("notification", "absent", Empty, Empty),
     Frame("none", "absent", Empty, Empty)}

\* call_tool's reading of the response (client.py 273-289): a truthy result is a
\* success; otherwise the message of the error member, found with .get. The
\* frame's id is not looked at.
MapResponse(f) ==
    IF f.kind = "result"
    THEN [raised |-> FALSE, result |-> MCPToolResult(TRUE, f.content, NoError)]
    ELSE IF f.kind \in {"empty_result", "notification"}
    THEN [raised |-> FALSE, result |-> MCPToolResult(FALSE, Empty, Str("Unknown error"))]
    ELSE IF f.kind = "error"
    THEN [raised |-> FALSE, result |-> MCPToolResult(FALSE, Empty, f.message)]
    ELSE IF f.kind = "error_text"
    THEN [raised |-> TRUE, result |-> MCPToolResult(FALSE, Empty, Empty)]
    ELSE [raised |-> FALSE, result |-> MCPToolResult(FALSE, Empty, Str("No response"))]

\* MCPClient.call_tool (client.py 254-289) on the client of server s, with
\* _send_request (186-218) and _read_response (220-240)
call_tool(s, f) ==
    /\ _request_id[s] < MaxRequestId
    /\ LET sent == _connected[s] /\ _pipes[s]
           answer == IF sent THEN f ELSE Frame("none", "absent", Empty, Empty)
           out == IF ~_connected[s]
                  THEN [raised |-> FALSE,
                        result |-> MCPToolResult(FALSE, Empty,
                                                 Str("Not connected to MCP server"))]
                  ELSE MapResponse(answer)
       IN  /\ _request_id' = [_request_id EXCEPT ![s] = IF sent THEN @ + 1 ELSE @]
           /\ written' = [written EXCEPT ![s] =
                              IF sent THEN Append(@, _request_id[s] + 1) ELSE @]
           /\ mcp_last' = MCPOutcome("call_tool", s, [x \in Servers |-> "absent"],
                             [x \in Servers |-> "none"], [x \in Servers |-> {}],
                             [frame |-> answer.kind, frame_id |-> answer.id,
                              session_before |-> session[s],
                              result |-> out.result, raised |-> out.raised,
                              wrote |-> sent, read |-> sent, advanced |-> sent])
    /\ UNCHANGED <<_connected, _process, _pipes, client_tools, registry_tools, session>>
    /\ UNCHANGED <<agentVars, besideMCP>>

\* MCPClient.list_resources (client.py 291-306) on the client of server s: one
\* resources/list request when the client is connected
list_resources(s) ==
    /\ _request_id[s] < MaxRequestId
    /\ LET sent == _connected[s] /\ _pipes[s]
       IN  /\ _request_id' = [_request_id EXCEPT ![s] = IF sent THEN @ + 1 ELSE @]
           /\ written' = [written EXCEPT ![s] =
                              IF sent THEN Append(@, _request_id[s] + 1) ELSE @]
    /\ mcp_last' = MCPOutcome("list_resources", s, [x \in Servers |-> "absent"],
                              [x \in Servers |-> "none"], [x \in Servers |-> {}], NoCall)
    /\ UNCHANGED <<_connected, _process, _pipes, client_tools, registry_tools, session>>
    /\ UNCHANGED <<agentVars, besideMCP>>

\* an agent with the built-in tools and a registry of two configured servers
InitMCP ==
    /\ messages = <<>>
    /\ max_messages = DefaultMaxHistoryMessages
    /\ clock = 0
    /\ last_added = NoMessage
    /\ storage_file = NoPath
    /\ auto_save = TRUE
    /\ FreshStore
    /\ IdleAgent
    /\ IdleMCP
    /\ IdleCallers
    /\ IdleQuery
    /\ IdleParser
    /\ enable_web_search = FALSE
    /\ IdleProvider

NextMCP ==
    \/ \E name \in Servers \cup {NoServer} : connect_mcp_servers(name)
    \/ \E name \in Servers \cup {NoServer} : disconnect(name)
    \/ \E s \in Servers, f \in Frames : call_tool(s, f)
    \/ \E s \in Servers : list_resources(s)

SpecMCP == InitMCP /\ [][NextMCP]_vars

-----------------------------------------------------------------------------
(* Properties of the MCP clients and registry (checked under SpecMCP) *)

IsConnectOp == mcp_last.op \in {"connect", "connect_all"}

\* the registry's entries of server s
EntriesOf(s) == SelectSeq(registry_tools, LAMBDA e : e.server_name = s)

\* the wrappers of server s in Agent.tools
WrappersOf(s) == {MCPToolName(s, t) : t \in ToolNames} \cap tools

\* C24: a connect that fails at any step (spawn error, no or malformed
\* initialize response, an initialize response without result, a missing,
\* malformed or result-less tools/list response) reports failure, leaves the
\* client not connected, and leaves no tool of that server registered or
\* materialized in the agent.
C24_FailedConnectLeavesNothingUsable ==
    IsConnectOp =>
        \A s \in Servers :
            mcp_last.kinds[s] \in ConnectKinds \ {"ok"}
                => /\ mcp_last.reported[s] = "false"
                   /\ ~_connected[s]
                   /\ EntriesOf(s) = <<>>
                   /\ WrappersOf(s) = {}

\* C25: call_tool on a session that is not ready (never connected, failed, or
\* disconnected) returns a failed result at once: it writes no frame, reads
\* nothing, does not advance the request id, and does not raise.
C25_CallOnUnreadySessionFailsAtOnce ==
    (mcp_last.op = "call_tool" /\ mcp_last.call.session_before # "ready")
        => /\ ~mcp_last.call.result.success
           /\ ~mcp_last.call.raised
           /\ ~mcp_last.call.wrote
           /\ ~mcp_last.call.read
           /\ ~mcp_last.call.advanced

\* C26: call_tool on a ready session: a frame with a result member gives
\* success with the result's content, a frame with an error member gives a
\* failure with the error's message, no response gives a failure; it never
\* raises.
C26_ResponseFrameMapping ==
    (mcp_last.op = "call_tool" /\ mcp_last.call.session_before = "ready")
        => /\ ~mcp_last.call.raised
           /\ mcp_last.call.frame = "result"
                  => mcp_last.call.result = MCPToolResult(TRUE, Str("out"), NoError)
           /\ mcp_last.call.frame = "empty_result"
                  => mcp_last.call.result = MCPToolResult(TRUE, Empty, NoError)
           /\ mcp_last.call.frame \in {"error", "error_text"}
                  => /\ ~mcp_last.call.result.success
                     /\ mcp_last.call.result.error = Str("boom")
           /\ mcp_last.call.frame = "none" => ~mcp_last.call.result.success

\* C27: after a server is disconnected its subprocess handle and both pipes are
\* gone, the client is not connected, and every RegisteredTool of that server
\* is still in the registry with is_available false.
C27_DisconnectMarksToolsUnavailable ==
    mcp_last.op = "disconnect" =>
        \A s \in Targets(mcp_last.server) :
            /\ ~_process[s]
            /\ ~_pipes[s]
            /\ ~_connected[s]
            /\ \A i \in 1..Len(registry_tools) :
                   registry_tools[i].server_name = s => ~registry_tools[i].is_available

\* C28: after a successful connect of server s whose tools/list returned T,
\* also when it follows an earlier connect or a disconnect of s, the registry
\* holds exactly one RegisteredTool per tool of T for s, named mcp_{s}_{t}, and
\* no name twice.
C28_RegistryHoldsExactlyTheListedTools ==
    IsConnectOp =>
        /\ \A s \in Servers :
               (mcp_last.kinds[s] = "ok" /\ mcp_last.reported[s] = "true")
                   => /\ Len(EntriesOf(s)) = Cardinality(mcp_last.offered[s])
                      /\ {EntriesOf(s)[i].name : i \in 1..Len(EntriesOf(s))}
                             = {MCPToolName(s, t) : t \in mcp_last.offered[s]}
        /\ \A i, j \in 1..Len(registry_tools) :
               registry_tools[i].name = registry_tools[j].name => i = j

-----------------------------------------------------------------------------
(* Further properties of the history store *)

\* C31: at the end of every store operation (append, clear, save, load, set
\* session name, session switch), whenever session metadata exists its
\* message_count is the number of messages in the store.
C31_MessageCountMatchesStore ==
    _metadata # NoMetadata => _metadata.message_count = Len(messages)

-----------------------------------------------------------------------------
(* Request ids and response correlation of an MCP client *)

\* C32: every request frame a client writes carries an id strictly greater than
\* the id of every frame it wrote before, across initialize, tools/list,
\* tools/call and resource requests and across reconnects.
C32_RequestIdsStrictlyIncrease ==
    \A s \in Servers : \A i, j \in 1..Len(written[s]) :
        i < j => written[s][i] < written[s][j]

\* C32 witness: a client connected, sent one further request, and connected
\* again: five frames, the last two written by the second connect.
C32_Witness ==
    /\ mcp_last.op = "connect"
    /\ mcp_last.server = "fs"
    /\ mcp_last.kinds["fs"] = "ok"
    /\ written["fs"] = <<1, 2, 3, 4, 5>>

\* C33: every response frame handed to a request has the id of that request: a
\* frame with another id, or without an id (a server notification, a late reply
\* to an earlier request), is never dispatched as the answer to the outstanding
\* request.
C33_ResponseMatchedToRequestById ==
    (mcp_last.op = "call_tool" /\ mcp_last.call.read /\ mcp_last.call.frame # "none")
        => mcp_last.call.frame_id = "same"

\* C39: after any sequence of connect and disconnect attempts on a client,
\* is_connected is true only if the most recent connect attempt succeeded and
\* no disconnect followed it; a failed connect on a client that was connected
\* before leaves is_connected false.
C39_ConnectedOnlyAfterSuccessfulConnect ==
    \A s \in Servers : _connected[s] => session[s] = "ready"

----------------------------------------------------------------------------
(* get_last_n_messages over every store the appends can build (SpecQuery) *)

\* the largest n asked for; the store holds at most MaxStoreAppends messages
MaxLastN == 4

\* get_last_n_messages (history.py 112-115): the slice messages[-n:] when
\* n < len(messages), else the whole list, each message through to_dict
LastN(msgs, n) == to_dicts(IF n < Len(msgs) THEN NegSlice(msgs, n) ELSE msgs)

\* one call of get_last_n_messages(n); it reads the store and changes nothing
get_last_n_messages(n) ==
    /\ last_n' = [n |-> n, result |-> LastN(messages, n)]
    /\ UNCHANGED <<histVars, agentVars, provVars, mcpVars, callVars, parseVars>>

InitQuery == InitStore

NextQuery ==
    \/ store_add
    \/ \E n \in 0..MaxLastN : get_last_n_messages(n)

SpecQuery == InitQuery /\ [][NextQuery]_vars

\* C38: getLastN(n) returns, for every n >= 0 and every store, exactly the
\* min(n, length) most recent messages in their stored order; getLastN(0)
\* returns an empty list and getLastN(n) with n >= length returns all messages.
C38_LastNReturnsTheMostRecent ==
    [][\A n \in 0..MaxLastN : get_last_n_messages(n) =>
          LET k == IF n < Len(messages) THEN n ELSE Len(messages)
          IN  last_n'.result =
                  to_dicts(SubSeq(messages, Len(messages) - k + 1, Len(messages)))]_vars

----------------------------------------------------------------------------
(* Two threads calling one connected client at once (SpecCalls).  Each thread
   runs call_tool in an event loop of its own (tool.py 76-90), so the steps of
   _send_request and _read_response of the two threads interleave.  The lock
   of _send_request (client.py 213-215) is taken for the write and the flush
   and released before _read_response is called. *)

\* the session the callers share
CallServer == "fs"

\* the session is connected: Agent.connect_mcp_servers on the one server, the
\* attempt succeeding
start_session ==
    /\ session[CallServer] = "new"
    /\ connect_mcp_servers(CallServer)
    /\ session'[CallServer] = "ready"

\* call_tool is entered (guard at client.py 264, _writer at 197) and the
\* thread loads self._request_id, the first half of `self._request_id += 1`
call_load(c) ==
    /\ caller_pc[c] = "idle"
    /\ _connected[CallServer] /\ _pipes[CallServer]
    /\ _request_id[CallServer] < MaxRequestId
    /\ caller_pc' = [caller_pc EXCEPT ![c] = "store"]
    /\ caller_id' = [caller_id EXCEPT ![c] = _request_id[CallServer]]
    /\ caller_got' = [caller_got EXCEPT ![c] = 0]
    /\ UNCHANGED <<stdin_frames, stdout_frames, mcpVars>>
    /\ UNCHANGED <<histVars, agentVars, provVars, queryVars, parseVars>>

\* the second half of `self._request_id += 1` (client.py 200): the loaded
\* value plus one is stored
call_store(c) ==
    /\ caller_pc[c] = "store"
    /\ _request_id' = [_request_id EXCEPT ![CallServer] = caller_id[c] + 1]
    /\ caller_pc' = [caller_pc EXCEPT ![c] = "build"]
    /\ UNCHANGED <<caller_id, caller_got, stdin_frames, stdout_frames>>
    /\ UNCHANGED <<_connected, _process, _pipes, client_tools, registry_tools, session,
                   mcp_last, written>>
    /\ UNCHANGED <<histVars, agentVars, provVars, queryVars, parseVars>>

\* the request is built with "id": self._request_id, read again (client.py 201-206)
call_build(c) ==
    /\ caller_pc[c] = "build"
    /\ caller_id' = [caller_id EXCEPT ![c] = _request_id[CallServer]]
    /\ caller_pc' = [caller_pc EXCEPT ![c] = "write"]
    /\ UNCHANGED <<caller_got, stdin_frames, stdout_frames, mcpVars>>
    /\ UNCHANGED <<histVars, agentVars, provVars, queryVars, parseVars>>

\* write and flush under _write_lock (client.py 213-215): the whole frame goes
\* to the subprocess's stdin in one step, and the lock is released
call_write(c) ==
    /\ caller_pc[c] = "write"
    /\ stdin_frames' = Append(stdin_frames, caller_id[c])
    /\ written' = [written EXCEPT ![CallServer] = Append(@, caller_id[c])]
    /\ caller_pc' = [caller_pc EXCEPT ![c] = "read"]
    /\ UNCHANGED <<caller_id, caller_got, stdout_frames>>
    /\ UNCHANGED <<_connected, _process, _pipes, _request_id, client_tools,
                   registry_tools, session, mcp_last>>
    /\ UNCHANGED <<histVars, agentVars, provVars, queryVars, parseVars>>

\* the server answers the oldest request it has not answered, with that
\* request's id
server_reply ==
    /\ stdin_frames # <<>>
    /\ stdout_frames' = Append(stdout_frames, Head(stdin_frames))
    /\ stdin_frames' = Tail(stdin_frames)
    /\ UNCHANGED <<caller_pc, caller_id, caller_got, mcpVars>>
    /\ UNCHANGED <<histVars, agentVars, provVars, queryVars, parseVars>>

\* _read_response (client.py 223-240): readline() blocks until a line is there
\* and returns the next one; call_tool maps it and returns
call_read(c) ==
    /\ caller_pc[c] = "read"
    /\ stdout_frames # <<>>
    /\ caller_got' = [caller_got EXCEPT ![c] = Head(stdout_frames)]
    /\ stdout_frames' = Tail(stdout_frames)
    /\ caller_pc' = [caller_pc EXCEPT ![c] = "idle"]
    /\ UNCHANGED <<caller_id, stdin_frames, mcpVars>>
    /\ UNCHANGED <<histVars, agentVars, provVars, queryVars, parseVars>>

InitCalls == InitMCP

NextCalls ==
    \/ start_session
    \/ \E c \in Callers : call_load(c)
    \/ \E c \in Callers : call_store(c)
    \/ \E c \in Callers : call_build(c)
    \/ \E c \in Callers : call_write(c)
    \/ server_reply
    \/ \E c \in Callers : call_read(c)

SpecCalls == InitCalls /\ [][NextCalls]_vars

\* a caller between its write and the arrival of its response
Awaiting(c) == caller_pc[c] = "read"

\* C34: when two callers issue requests concurrently on the same MCP session,
\* the write-then-await-response sequence of one is mutually exclusive with
\* that of the other, and each caller receives the response to its own
\* request, never the response to the other caller's request.
C34_WriteThenAwaitIsExclusive ==
    /\ \A c, d \in Callers : (Awaiting(c) /\ Awaiting(d)) => c = d
    /\ \A c \in Callers :
         (caller_pc[c] = "idle" /\ caller_got[c] # 0) => caller_got[c] = caller_id[c]

----------------------------------------------------------------------------
(* The order of provider requests and tool executions in run() (Spec) *)

\* the position of the call with this id in the response's tool calls
PositionOf(id) == CHOOSE i \in 1..Len(tool_calls) : tool_calls[i].id = id

\* C35: within one run() there is at most one provider request and at most one
\* tool execution in flight; the tools of a response are executed one after
\* another in the order the calls were returned, and every tool result of
\* iteration k has been appended to the history before provider request k+1
\* is issued.
C35_OneRequestThenToolsInOrder ==
    mode = "run" =>
        \* results are collected call by call, in the calls' order
        /\ Len(results) <= Len(tool_calls)
        /\ \A i \in 1..Len(results) : results[i].tool_call_id = tool_calls[i].id
        \* the tools run are tools of this response, each once, in the calls'
        \* order, and none beyond the call being handled
        /\ \A i \in 1..Len(invoked) :
             /\ \E j \in 1..Len(tool_calls) : tool_calls[j].id = invoked[i]
             /\ PositionOf(invoked[i]) <= Len(results) + 1
             /\ \A j \in 1..(i - 1) : PositionOf(invoked[j]) < PositionOf(invoked[i])
        \* while tools are running, request k is answered and request k+1 is
        \* not issued
        /\ pc = "exec" => (chats = iteration + 1 /\ Len(results) < Len(tool_calls))
        \* when request k+1 is about to be issued, every call of response k has
        \* its result, and the results are the store's latest appends, in order
        /\ (pc = "chat" /\ iteration > 0) =>
             /\ chats = iteration
             /\ Len(results) = Len(tool_calls)
             /\ last_added = ToolMessage(Last(results), clock)
             /\ max_messages = DefaultMaxHistoryMessages =>
                  \A i \in 1..Len(results) :
                      messages[Len(messages) - Len(results) + i]
                          = ToolMessage(results[i], clock - Len(results) + i)

\* a second provider request is about to be issued after two tools ran
C35_Witness ==
    /\ mode = "run" /\ pc = "chat" /\ iteration = 1 /\ chats = 1
    /\ Len(results) = 2 /\ Len(invoked) = 2
    /\ max_messages = DefaultMaxHistoryMessages

----------------------------------------------------------------------------
(* The adapters' parsers (SpecParse): parse_response of the Anthropic, OpenAI
   and compatible adapters and parse_stream_chunk of the OpenAI adapter, each
   applied to one vendor response.  A JSON text is a sequence of tokens: the
   punctuation marks, and maximal runs of word characters or of other
   characters; white space between tokens is left out. *)

MaxBlocks == 3
MaxEntries == 2
MaxSegments == 3

LB == "{"
RB == "}"
QT == "\""
CL == ":"
CM == ","

\* the tokens that are runs of word characters (\w+)
Words == {"query", "x", "url", "https", "time", "10", "30", "oops"}

IsWord(tok) == tok \in Words

\* the argument strings a vendor sends: "", {"query":"x"}, {query:"x"},
\* {"url":"https://a.b"}, {"time":"10:30"} and text that is not JSON
EmptyArgs == <<>>
QuotedArgs == <<LB, QT, "query", QT, CL, QT, "x", QT, RB>>
UnquotedArgs == <<LB, "query", CL, QT, "x", QT, RB>>
UrlArgs == <<LB, QT, "url", QT, CL, QT, "https", CL, "//a.b", QT, RB>>
TimeArgs == <<LB, QT, "time", QT, CL, QT, "10", CL, "30", QT, RB>>
NotJsonArgs == <<"oops">>

ArgStrings == {EmptyArgs, QuotedArgs, UnquotedArgs, UrlArgs, TimeArgs, NotJsonArgs}

\* re.sub(r'(\w+):', r'"\1":', args_str) (openai.py 136, 183): every run of
\* word characters that a colon follows is put between quotes, inside string
\* values as well as outside
RECURSIVE FixArgs(_)
FixArgs(toks) ==
    IF toks = <<>> THEN <<>>
    ELSE IF Len(toks) >= 2 /\ IsWord(toks[1]) /\ toks[2] = CL
    THEN <<QT, toks[1], QT, CL>> \o FixArgs(SubSeq(toks, 3, Len(toks)))
    ELSE <<toks[1]>> \o FixArgs(Tail(toks))

\* what parsing a piece of JSON gives: failure (json.JSONDecodeError), or the
\* value and the position after it
JsonFail == [ok |-> FALSE, value |-> <<>>, next |-> 0]
JsonOk(v, n) == [ok |-> TRUE, value |-> v, next |-> n]

\* a JSON string starting at position i: the tokens up to the next quote
ParseString(toks, i) ==
    IF i <= Len(toks) /\ toks[i] = QT /\ \E j \in (i + 1)..Len(toks) : toks[j] = QT
    THEN LET j == CHOOSE j \in (i + 1)..Len(toks) :
                      toks[j] = QT /\ \A k \in (i + 1)..(j - 1) : toks[k] # QT
         IN  JsonOk(SubSeq(toks, i + 1, j - 1), j + 1)
    ELSE JsonFail

\* the members of a JSON object from position i on, up to the closing brace,
\* which must end the text
RECURSIVE ParseMembers(_, _, _)
ParseMembers(toks, i, acc) ==
    LET k == ParseString(toks, i)
    IN  IF ~k.ok \/ k.next > Len(toks) \/ toks[k.next] # CL THEN JsonFail
        ELSE LET v == ParseString(toks, k.next + 1)
             IN  IF ~v.ok \/ v.next > Len(toks) THEN JsonFail
                 ELSE LET acc2 == Append(acc, [key |-> k.value, value |-> v.value])
                      IN  IF toks[v.next] = RB
                          THEN (IF v.next = Len(toks) THEN JsonOk(acc2, v.next + 1)
                                ELSE JsonFail)
                          ELSE IF toks[v.next] = CM
                          THEN ParseMembers(toks, v.next + 1, acc2)
                          ELSE JsonFail

\* json.loads on an argument string: the object as the list of its members
Loads(toks) ==
    IF Len(toks) >= 2 /\ toks[1] = LB
    THEN IF toks[2] = RB
         THEN (IF Len(toks) = 2 THEN JsonOk(<<>>, 3) ELSE JsonFail)
         ELSE ParseMembers(toks, 2, <<>>)
    ELSE JsonFail

\* the empty dict
NoArguments == <<>>

\* openai.py 133-139 / 181-186: the arguments of one native tool call; the
\* empty string and every string json.loads rejects give {}
OpenAIArguments(args_str) ==
    LET fixed_args == FixArgs(args_str)
    IN  IF fixed_args = <<>> THEN NoArguments
        ELSE IF Loads(fixed_args).ok THEN Loads(fixed_args).value
        ELSE NoArguments

\* ids: the ones a vendor issues, the ones an adapter makes up (f"call_{i}"),
\* and the id a streamed call can lack
VendorId(i) == <<"vendor_", i>>
CallId(i) == <<"call_", i>>
AbsentId == <<"none", 0>>

\* a text is a sequence of segments: plain text, or a fenced block that
\* matches ```tool_call\s*\n(.*?)\n``` (compatible.py 172), with what is
\* between the fences
NoPayload ==
    [json |-> "none", has_tool |-> FALSE, tool |-> "none", has_parameters |-> FALSE,
     parameters |-> <<>>]
TextSeg(t) == [kind |-> "text", text |-> t, payload |-> NoPayload]
BlockSeg(p) == [kind |-> "block", text |-> "", payload |-> p]

\* what stands between the fences: {"tool": "t1", "parameters": {"query": "x"}},
\* {"tool": "t2"}, {"name": "t1"}, text that is not JSON, and the JSON list [1]
Payloads ==
    {[json |-> "object", has_tool |-> TRUE, tool |-> "t1", has_parameters |-> TRUE,
      parameters |-> <<[key |-> <<"query">>, value |-> <<"x">>]>>],
     [json |-> "object", has_tool |-> TRUE, tool |-> "t2", has_parameters |-> FALSE,
      parameters |-> <<>>],
     [json |-> "object", has_tool |-> FALSE, tool |-> "none", has_parameters |-> FALSE,
      parameters |-> <<>>],
     [json |-> "invalid", has_tool |-> FALSE, tool |-> "none", has_parameters |-> FALSE,
      parameters |-> <<>>],
     [json |-> "array", has_tool |-> FALSE, tool |-> "none", has_parameters |-> FALSE,
      parameters |-> <<>>]}

Segments == {TextSeg("hi")} \cup {BlockSeg(p) : p \in Payloads}

IsBlock(seg) == seg.kind = "block"
IsPlain(seg) == seg.kind = "text"

\* an Anthropic content block (anthropic.py 65-75)
Block(type, text, id, name, input) ==
    [type |-> type, text |-> text, id |-> id, name |-> name, input |-> input]

\* the kinds of block of an Anthropic response; a tool_use block gets its id
\* from its position
BlockKinds ==
    {[type |-> "text", text |-> <<TextSeg("a")>>, name |-> "none", input |-> <<>>],
     [type |-> "text", text |-> <<TextSeg("b")>>, name |-> "none", input |-> <<>>],
     [type |-> "tool_use", text |-> <<>>, name |-> "t1",
      input |-> <<[key |-> <<"query">>, value |-> <<"x">>]>>],
     [type |-> "tool_use", text |-> <<>>, name |-> "t2", input |-> <<>>]}

\* a native tool call entry (message.tool_calls / delta.tool_calls)
Entry(id, has_function, name, arguments) ==
    [id |-> id, has_function |-> has_function, name |-> name, arguments |-> arguments]

\* the sequences of k kinds
KindSeqs(K, n) == UNION {[1..k -> K] : k \in 0..n}

\* a vendor response, as far as the parsers read it
VendorResponse(vendor, choices, text, blocks, entries, finish) ==
    [vendor |-> vendor, choices |-> choices, text |-> text, blocks |-> blocks,
     entries |-> entries, finish |-> finish]

AnthropicResponses ==
    {VendorResponse("anthropic", FALSE, <<>>,
         [i \in 1..Len(ks) |-> Block(ks[i].type, ks[i].text, VendorId(i), ks[i].name,
                                     ks[i].input)],
         <<>>, FALSE) : ks \in KindSeqs(BlockKinds, MaxBlocks)}

\* the entries of a complete response: each has its id and its function
NativeEntries ==
    {[i \in 1..Len(as) |-> Entry(VendorId(i), TRUE, "t1", as[i])] :
        as \in KindSeqs(ArgStrings, MaxEntries)}

\* the last one is a response without any choice
OpenAIResponses ==
    {VendorResponse("openai", TRUE, text, <<>>, entries, FALSE) :
        text \in {<<>>, <<TextSeg("hi")>>}, entries \in NativeEntries}
        \cup {VendorResponse("openai", FALSE, <<>>, <<>>, <<>>, FALSE)}

\* the entries of a streamed chunk: the id or the function can be missing
ChunkEntryKinds ==
    {[has_id |-> h, has_function |-> TRUE, arguments |-> a] :
        h \in BOOLEAN, a \in ArgStrings}
        \cup {[has_id |-> TRUE, has_function |-> FALSE, arguments |-> EmptyArgs]}

ChunkEntries ==
    {[i \in 1..Len(ks) |->
         Entry(IF ks[i].has_id THEN VendorId(i) ELSE AbsentId, ks[i].has_function,
               "t1", ks[i].arguments)] : ks \in KindSeqs(ChunkEntryKinds, MaxEntries)}

OpenAIChunks ==
    {VendorResponse("openai_chunk", TRUE, text, <<>>, entries, finish) :
        text \in {<<>>, <<TextSeg("x")>>}, entries \in ChunkEntries, finish \in BOOLEAN}
        \cup {VendorResponse("openai_chunk", FALSE, <<>>, <<>>, <<>>, FALSE)}

\* the responses of an OpenAI-compatible server: text with or without fenced
\* blocks, and for a model with native calling one entry; the last one is a
\* response without choices
CompatibleResponses ==
    {VendorResponse("compatible", TRUE, text, <<>>, entries, FALSE) :
        text \in KindSeqs(Segments, MaxSegments),
        entries \in {<<>>, <<Entry(VendorId(1), TRUE, "t1", QuotedArgs)>>,
                     <<Entry(VendorId(1), TRUE, "t1", NotJsonArgs)>>}}
        \cup {VendorResponse("compatible", FALSE, <<>>, <<>>, <<>>, FALSE)}

VendorResponses ==
    AnthropicResponses \cup OpenAIResponses \cup OpenAIChunks \cup CompatibleResponses

\* what a parser gives back: an LLMResponse or a StreamChunk (its delta under
\* content), or an exception that leaves the parser.  None and the empty
\* string, and None and the empty list, are both the empty sequence.
Parsed(content, calls, is_final) ==
    [raised |-> FALSE, content |-> content, tool_calls |-> calls, is_final |-> is_final]
ParseRaised == [raised |-> TRUE, content |-> <<>>, tool_calls |-> <<>>, is_final |-> FALSE]

\* anthropic.py 64-75: the loop over the content blocks; a text block assigns
\* content, a tool_use block assigns tool_calls a list of one ToolCall
RECURSIVE AnthropicBlocks(_, _)
AnthropicBlocks(blocks, acc) ==
    IF blocks = <<>> THEN acc
    ELSE LET block == Head(blocks)
         IN  AnthropicBlocks(Tail(blocks),
                 IF block.type = "text"
                 THEN [acc EXCEPT !.content = block.text]
                 ELSE IF block.type = "tool_use"
                 THEN [acc EXCEPT !.tool_calls =
                          <<ToolCall(block.id, block.name, block.input)>>]
                 ELSE acc)

\* AnthropicProvider.parse_response (anthropic.py 57-88)
AnthropicParse(r) == AnthropicBlocks(r.blocks, Parsed(<<>>, <<>>, FALSE))

\* OpenAIProvider.parse_response (openai.py 123-161); choices[0] of a response
\* without choices raises
OpenAIParse(r) ==
    IF ~r.choices THEN ParseRaised
    ELSE Parsed(r.text,
                [i \in 1..Len(r.entries) |->
                    ToolCall(r.entries[i].id, r.entries[i].name,
                             OpenAIArguments(r.entries[i].arguments))],
                FALSE)

\* openai.py 176-193: the loop over delta.tool_calls; an entry without function
\* is skipped, an entry without id gets call_<number of calls so far>
RECURSIVE ChunkCalls(_, _)
ChunkCalls(entries, acc) ==
    IF entries = <<>> THEN acc
    ELSE LET tc == Head(entries)
         IN  ChunkCalls(Tail(entries),
                 IF tc.has_function
                 THEN Append(acc, ToolCall(IF tc.id # AbsentId THEN tc.id
                                           ELSE CallId(Len(acc)),
                                           tc.name, OpenAIArguments(tc.arguments)))
                 ELSE acc)

\* OpenAIProvider.parse_stream_chunk (openai.py 163-199)
OpenAIParseChunk(r) ==
    IF ~r.choices THEN Parsed(<<>>, <<>>, FALSE)
    ELSE Parsed(r.text, ChunkCalls(r.entries, <<>>), r.finish)

\* compatible.py 177-188: the loop over the matches, i counting from 0.  Not
\* JSON (JSONDecodeError) and an object without "tool" (KeyError) are skipped;
\* JSON that is not an object makes call_data["tool"] raise TypeError, which
\* nothing catches
RECURSIVE TextCalls(_, _, _)
TextCalls(matches, i, acc) ==
    IF matches = <<>> THEN [raised |-> FALSE, calls |-> acc]
    ELSE LET call_data == Head(matches).payload
         IN  IF call_data.json = "invalid"
             THEN TextCalls(Tail(matches), i + 1, acc)
             ELSE IF call_data.json # "object"
             THEN [raised |-> TRUE, calls |-> <<>>]
             ELSE IF ~call_data.has_tool
             THEN TextCalls(Tail(matches), i + 1, acc)
             ELSE TextCalls(Tail(matches), i + 1,
                      Append(acc, ToolCall(CallId(i), call_data.tool,
                                           IF call_data.has_parameters
                                           THEN call_data.parameters
                                           ELSE NoArguments)))

\* CompatibleProvider._parse_text_tool_calls (compatible.py 170-190)
_parse_text_tool_calls(content) == TextCalls(SelectSeq(content, IsBlock), 0, <<>>)

\* CompatibleProvider._remove_tool_calls_from_content (compatible.py 192-195):
\* every fenced block is cut out; strip() then removes white space at the ends,
\* which the segments do not carry
_remove_tool_calls_from_content(content) == SelectSeq(content, IsPlain)

\* the text str(response) gives for an object that is no chat completion
Repr == <<TextSeg("repr")>>

\* CompatibleProvider.parse_response (compatible.py 98-133): native entries
\* through json.loads without any handler, else the fenced blocks of the text
CompatibleParse(r) ==
    IF ~r.choices THEN Parsed(Repr, <<>>, FALSE)
    ELSE IF \E i \in 1..Len(r.entries) : ~Loads(r.entries[i].arguments).ok
    THEN ParseRaised
    ELSE LET native == [i \in 1..Len(r.entries) |->
                           ToolCall(r.entries[i].id, r.entries[i].name,
                                    Loads(r.entries[i].arguments).value)]
             parsed == _parse_text_tool_calls(r.text)
         IN  IF native = <<>> /\ r.text # <<>>
             THEN IF parsed.raised THEN ParseRaised
                  ELSE IF parsed.calls # <<>>
                  THEN Parsed(_remove_tool_calls_from_content(r.text), parsed.calls, FALSE)
                  ELSE Parsed(r.text, <<>>, FALSE)
             ELSE Parsed(r.text, native, FALSE)

\* one parser applied to the response at hand, once
anthropic_parse_response ==
    /\ parse_by = "none"
    /\ parse_input.vendor = "anthropic"
    /\ parse_by' = "anthropic"
    /\ parse_output' = AnthropicParse(parse_input)
    /\ UNCHANGED <<parse_input, histVars, agentVars, provVars, mcpVars, callVars, queryVars>>

openai_parse_response ==
    /\ parse_by = "none"
    /\ parse_input.vendor = "openai"
    /\ parse_by' = "openai"
    /\ parse_output' = OpenAIParse(parse_input)
    /\ UNCHANGED <<parse_input, histVars, agentVars, provVars, mcpVars, callVars, queryVars>>

openai_parse_stream_chunk ==
    /\ parse_by = "none"
    /\ parse_input.vendor = "openai_chunk"
    /\ parse_by' = "openai_chunk"
    /\ parse_output' = OpenAIParseChunk(parse_input)
    /\ UNCHANGED <<parse_input, histVars, agentVars, provVars, mcpVars, callVars, queryVars>>

compatible_parse_response ==
    /\ parse_by = "none"
    /\ parse_input.vendor = "compatible"
    /\ parse_by' = "compatible"
    /\ parse_output' = CompatibleParse(parse_input)
    /\ UNCHANGED <<parse_input, histVars, agentVars, provVars, mcpVars, callVars, queryVars>>

InitParse ==
    /\ messages = <<>>
    /\ max_messages = DefaultMaxHistoryMessages
    /\ clock = 0
    /\ last_added = NoMessage
    /\ storage_file = NoPath
    /\ auto_save = TRUE
    /\ FreshStore
    /\ IdleAgent
    /\ IdleMCP
    /\ IdleCallers
    /\ IdleQuery
    /\ parse_input \in VendorResponses
    /\ parse_by = "none"
    /\ parse_output = NoParse
    /\ enable_web_search = FALSE
    /\ IdleProvider

NextParse ==
    \/ anthropic_parse_response
    \/ openai_parse_response
    \/ openai_parse_stream_chunk
    \/ compatible_parse_response

SpecParse == InitParse /\ [][NextParse]_vars

----------------------------------------------------------------------------
(* Properties of the parsers (checked under SpecParse) *)

\* the native tool-call entries of a response, as the ToolCalls the claim
\* expects: the tool_use blocks of an Anthropic response in their order, the
\* message's entries of an OpenAI response with their arguments decoded
NativeCalls(r) ==
    IF r.vendor = "anthropic"
    THEN LET uses == SelectSeq(r.blocks, LAMBDA b : b.type = "tool_use")
         IN  [i \in 1..Len(uses) |-> ToolCall(uses[i].id, uses[i].name, uses[i].input)]
    ELSE [i \in 1..Len(r.entries) |->
             ToolCall(r.entries[i].id, r.entries[i].name,
                      Loads(r.entries[i].arguments).value)]

\* C36: for every vendor response that contains N native tool-call entries
\* (Anthropic: N tool_use blocks in any interleaving with text blocks),
\* parse_response returns N ToolCalls in the same order, each with the
\* vendor-issued id, name and arguments.  For OpenAI the responses whose
\* argument strings are JSON objects are the ones looked at.
C36_EveryNativeCallIsReturned ==
    (/\ parse_by \in {"anthropic", "openai"}
     /\ parse_input.choices = (parse_by = "openai")
     /\ \A i \in 1..Len(parse_input.entries) : Loads(parse_input.entries[i].arguments).ok)
        => /\ ~parse_output.raised
           /\ parse_output.tool_calls = NativeCalls(parse_input)

\* the fenced blocks of a text that are JSON objects with a "tool" key, with
\* their positions among the blocks (from 0)
ValidBlocks(text) ==
    LET matches == SelectSeq(text, IsBlock)
    IN  SelectSeq([i \in 1..Len(matches) |-> [at |-> i - 1, payload |-> matches[i].payload]],
                  LAMBDA m : m.payload.json = "object" /\ m.payload.has_tool)

\* C37: for a model without native tool calling whose text contains fenced
\* tool_call blocks, each block that parses as JSON with a "tool" key becomes
\* one ToolCall (name from "tool", arguments from "parameters"), in block order
\* and with ids unique within the response; and whenever a ToolCall is
\* produced the content contains no sentinel block.
C37_EveryValidBlockBecomesAToolCall ==
    (/\ parse_by = "compatible"
     /\ parse_input.choices
     /\ parse_input.entries = <<>>
     /\ \E i \in 1..Len(parse_input.text) : IsBlock(parse_input.text[i]))
        => LET valid == ValidBlocks(parse_input.text)
               calls == parse_output.tool_calls
           IN  /\ valid # <<>> => ~parse_output.raised
               /\ ~parse_output.raised =>
                    /\ Len(calls) = Len(valid)
                    /\ \A i \in 1..Len(valid) :
                         /\ calls[i].name = valid[i].payload.tool
                         /\ calls[i].arguments = valid[i].payload.parameters
                    /\ \A i, j \in 1..Len(calls) : calls[i].id = calls[j].id => i = j
                    /\ calls # <<>> =>
                         \A i \in 1..Len(parse_output.content) :
                             ~IsBlock(parse_output.content[i])

\* C40: for every native tool call whose argument string is valid JSON with
\* quoted keys, the OpenAI adapter's ToolCall.arguments equals that JSON
\* object, also when a string value holds a word followed by a colon (a URL, a
\* time); valid arguments are never replaced by an empty map.
C40_ValidArgumentsAreKept ==
    (parse_by \in {"openai", "openai_chunk"} /\ parse_input.choices)
        => LET made == SelectSeq(parse_input.entries, LAMBDA tc : tc.has_function)
           IN  /\ Len(parse_output.tool_calls) = Len(made)
               /\ \A i \in 1..Len(made) :
                    Loads(made[i].arguments).ok =>
                        parse_output.tool_calls[i].arguments = Loads(made[i].arguments).value

=============================================================================
